---- MODULE Spec2Model ----
(***************************************************************************)
(* A model of the SeedingGrowfox dashboard (PageInfo/views.py,             *)
(* PageInfo/ai_sentiment_analyzer.py, PageInfo/fb_reel.py).                *)
(*                                                                         *)
(* The relational store is a set of tables, each a sequence of rows in     *)
(* creation order (a row's index is its primary key, and a later index is  *)
(* a later created_at).  Every HTTP handler is one action: it reads its    *)
(* request from small input sets, changes the tables as the code does and  *)
(* leaves the request and the response it gave in a "last" variable.       *)
(*                                                                         *)
(* Thai string literals of the source are written in ASCII here; the       *)
(* definition that stands for each names the source line that holds it.    *)
(***************************************************************************)
EXTENDS Integers, Sequences, FiniteSets, TLC

VARIABLES
    groups,     \* PageGroup table: the set of existing group ids
    pages,      \* PageInfo table: sequence of [group, platform]
    posts,      \* FacebookPost table: sequence of [post_id, page, post_type, post_timestamp_dt]
    pgLast,     \* the last request to add_page / group_detail / pageview, and its response
    dashboards, \* FBCommentDashboard table: sequence of [link_url, dashboard_type, screenshot, via]
    comments,   \* FacebookComment table: sequence of [post_url, dashboard, author,
                \*   timestamp_text, like_status, share_status, category, sentiment]
    categoryDefault, \* the value a FacebookComment created without a category holds
    cmLast,     \* the last request to a comment-dashboard handler, and its response
    snLast,     \* the last call of analyze_sentiment_and_category, and what it gave
    fnLast,     \* the last call of a helper function (a parser, a normaliser, an
                \*   aggregate), its arguments and what it gave
    reel        \* one FBReelScraperAsync.run(): where it stands, its locals, the
                \*   browser it opened and the reel links the page shows

pageVars == <<groups, pages, posts, pgLast>>

commentVars == <<dashboards, comments, categoryDefault, cmLast>>

vars == <<groups, pages, posts, pgLast, dashboards, comments, categoryDefault, cmLast,
          snLast, fnLast, reel>>

----------------------------------------------------------------------------
(* Bounds of the model                                                      *)

MaxPages      == 2     \* PageInfo rows
MaxBatch      == 2     \* items one post/video/reel pipeline run returns
MaxDashboards == 2     \* FBCommentDashboard rows
MaxResolved   == 3     \* FBCommentDashboard rows when resolving a URL
MaxScrape     == 2     \* comments one scraper run returns
MaxPad        == 1     \* whitespace characters on each side of a label

----------------------------------------------------------------------------
(* Python values                                                            *)

None  == "None"          \* Python's None / SQL NULL
NoKey == "<no key>"      \* a dict that has no such key

\* A nullable integer column: <<>> for NULL / None, <<n>> for n.
Count(n) == <<n>>
NullCount == <<>>

\* The reactions column: a dict of counts (its values, in key order), or a
\* value that is no dict.
Dict(values) == [dict |-> TRUE, values |-> values]
NotADict == [dict |-> FALSE, values |-> <<>>]

Platforms == {"facebook", "tiktok", "instagram", "lemon8", "youtube"}

RECURSIVE SeqsUpTo(_, _)
SeqsUpTo(S, n) ==
    IF n = 0 THEN {<<>>}
    ELSE LET shorter == SeqsUpTo(S, n - 1)
         IN  shorter \cup {Append(s, x) : s \in {t \in shorter : Len(t) = n - 1}, x \in S}

Response(op, status, view) == [op |-> op, status |-> status, view |-> view]

----------------------------------------------------------------------------
(* add_page: the Facebook post / video / reel pipeline and the upsert loop  *)

PostIds   == {"p1", "p2"}
PostTypes == {"post", "reel"}

\* One item of the list run_fb_post_video_reel_scraper returns.  post_id is
\* NoKey for an item without that key (post["post_id"] raises KeyError).
\* post_timestamp_dt is None when the scraper gave none: the reel scraper's
\* record (fb_reel.py lines 273-284) never has the key.
PostItems ==
    {it \in [post_id : PostIds \cup {NoKey}, post_type : PostTypes,
             post_timestamp_dt : {None, "dt"}, reactions : {Dict(<<1>>)},
             comment_count : {Count(0)}, share_count : {Count(0)}] :
        it.post_timestamp_dt = None <=> it.post_type = "reel"}

\* What asyncio.run(run_fb_post_video_reel_scraper(...)) gives: it raises, or
\* returns the concatenated list (views.py line 375).
PipelineResults ==
    {[raised |-> TRUE, items |-> <<>>]}
    \cup {[raised |-> FALSE, items |-> s] : s \in SeqsUpTo(PostItems, MaxBatch)}

Matching(tbl, pid) == {i \in DOMAIN tbl : tbl[i].post_id = pid}

update_or_create_always_inserts(tbl, pid, defaults) ==
    [tbl |-> Append(tbl, [post_id |-> pid] @@ defaults), raised |-> FALSE]

\* FacebookPost.objects.update_or_create(post_id=..., defaults={...}):
\* get(post_id=pid); one row -> overwrite its fields; no row -> insert;
\* several rows -> MultipleObjectsReturned.
update_or_create(tbl, pid, defaults) ==
    LET m == Matching(tbl, pid)
    IN  IF m = {}
        THEN [tbl |-> Append(tbl, [post_id |-> pid] @@ defaults), raised |-> FALSE]
        ELSE IF Cardinality(m) = 1
        THEN LET i == CHOOSE j \in m : TRUE
             IN  [tbl |-> [tbl EXCEPT ![i] = [post_id |-> pid] @@ defaults],
                  raised |-> FALSE]
        ELSE [tbl |-> tbl, raised |-> TRUE]

\* The loop of views.py lines 414-444 over the items from index k on: it stops
\* at the first item that raises (KeyError on post["post_id"]), keeping the
\* rows written before it.
RECURSIVE UpsertLoop(_, _, _, _)
UpsertLoop(tbl, items, k, page_obj) ==
    IF k > Len(items) THEN [tbl |-> tbl, raised |-> FALSE, done |-> k - 1]
    ELSE LET post == items[k]
         IN  IF post.post_id = NoKey
             THEN [tbl |-> tbl, raised |-> TRUE, done |-> k - 1]
             ELSE LET r == update_or_create(tbl, post.post_id,
                                  [page |-> page_obj, post_type |-> post.post_type,
                                   post_timestamp_dt |-> post.post_timestamp_dt,
                                   reactions |-> post.reactions,
                                   comment_count |-> post.comment_count,
                                   share_count |-> post.share_count])
                  IN  IF r.raised
                      THEN [tbl |-> tbl, raised |-> TRUE, done |-> k - 1]
                      ELSE UpsertLoop(r.tbl, items, k + 1, page_obj)

\* The post_ids the loop wrote before it stopped.
Written(items, done) == {items[k].post_id : k \in 1..done}

----------------------------------------------------------------------------
(* add_page (views.py lines 379-629)                                        *)

\* What a profile scraper returns: None, an empty dict, or a dict with data.
\* "data_badcount" is FBPageInfo's dict with a page_likes_count or
\* page_followers_count string that int() rejects after the commas are
\* removed, such as "1.2K" (views.py lines 396-399).
ProfileResults == {None, "empty", "data"}
FacebookProfileResults == ProfileResults \cup {"data_badcount"}

\* The part of the request and of the handler's run that pgLast keeps.
NoRun == [id |-> 0, platform |-> None, profile |-> NoKey, failed |-> "none",
          pagesBefore |-> 0, written |-> {}, updated |-> {}, top10 |-> <<>>]

\* A request for the Group or Page `id`, before the handler has run.
Req(id) == [NoRun EXCEPT !.id = id, !.pagesBefore = Len(pages)]

\* The post_ids that have a row in the Post table.
StoredPostIds == {posts[i].post_id : i \in DOMAIN posts}

PipelineUnguarded(raised) == raised

\* try: ... except Exception (views.py lines 406-446): whatever the pipeline
\* or the loop raises is printed, and the handler goes on to the redirect.
PipelineEscapes(raised) == FALSE

\* The branch for platform facebook (views.py lines 389-446).
AddPageFacebook(group_id, profile, pipeline) ==
    LET before == [Req(group_id) EXCEPT !.platform = "facebook", !.profile = profile]
    IN  IF profile \in {None, "data_badcount"}
        THEN \* 'page_id' in None: TypeError; int("1.2K"): ValueError
             /\ pgLast' = Response("add_page", 500, "exception") @@ before
             /\ UNCHANGED <<pages, posts>>
        ELSE LET page_obj == Len(pages) + 1
                 loop == IF pipeline.raised
                         THEN [tbl |-> posts, raised |-> TRUE, done |-> 0]
                         ELSE UpsertLoop(posts, pipeline.items, 1, page_obj)
                 failed == IF pipeline.raised THEN "pipeline"
                           ELSE IF loop.raised THEN "loop" ELSE "none"
                 written == Written(pipeline.items, loop.done)
                 run == [before EXCEPT !.failed = failed, !.written = written,
                                       !.updated = written \cap StoredPostIds]
             IN  /\ pages' = Append(pages, [group |-> group_id, platform |-> "facebook"])
                 /\ posts' = loop.tbl
                 /\ pgLast' = IF PipelineEscapes(loop.raised)
                              THEN Response("add_page", 500, "exception") @@ run
                              ELSE Response("add_page", 302, "group_detail") @@ run

\* The branches for tiktok, instagram, lemon8 and youtube (views.py lines
\* 449-621): a truthy result is persisted, a falsy one re-renders the form.
AddPageOther(group_id, platform, profile, igMatch, ytNumbersOk) ==
    LET before == [Req(group_id) EXCEPT !.platform = platform, !.profile = profile]
    IN  IF platform = "instagram" /\ ~igMatch
        THEN \* the URL does not match instagram\.com/...: no scraper is called
             /\ pgLast' = Response("add_page", 200, "form_error") @@
                              [before EXCEPT !.profile = NoKey]
             /\ UNCHANGED <<pages, posts>>
        ELSE IF profile # "data"
        THEN /\ pgLast' = Response("add_page", 200, "form_error") @@ before
             /\ UNCHANGED <<pages, posts>>
        ELSE IF platform = "youtube" /\ ~ytNumbersOk
        THEN \* clean_number raises ValueError (views.py lines 351-356)
             /\ pgLast' = Response("add_page", 500, "exception") @@ before
             /\ UNCHANGED <<pages, posts>>
        ELSE /\ pages' = Append(pages, [group |-> group_id, platform |-> platform])
             /\ pgLast' = Response("add_page", 302, "group_detail") @@ before
             /\ UNCHANGED posts

\* PageGroup.objects.get(id=group_id) (views.py line 380): DoesNotExist is
\* not caught, so the framework answers 500.
AddPageGroupLookup(group_id) ==
    IF group_id \in groups THEN "found" ELSE "DoesNotExist"

\* get_object_or_404(Model, id=...) (views.py lines 645 and 861)
get_object_or_404(ids, id) ==
    IF id \in ids THEN "found" ELSE "Http404"

add_page(group_id, method, platform, urlOk) ==
    /\ Len(pages) < MaxPages
    /\ UNCHANGED groups
    /\ IF AddPageGroupLookup(group_id) # "found"
       THEN /\ pgLast' = Response("add_page", 500, "exception") @@ Req(group_id)
            /\ UNCHANGED <<pages, posts>>
       ELSE IF method # "POST" \/ ~(platform \in Platforms /\ urlOk)
       THEN \* an unbound form, or a bound form with its field errors
            /\ pgLast' = Response("add_page", 200, "form") @@ Req(group_id)
            /\ UNCHANGED <<pages, posts>>
       ELSE IF platform = "facebook"
       THEN \E profile \in FacebookProfileResults, pipeline \in PipelineResults :
                AddPageFacebook(group_id, profile, pipeline)
       ELSE \E profile \in ProfileResults, igMatch \in BOOLEAN,
               ytNumbersOk \in BOOLEAN :
                AddPageOther(group_id, platform, profile, igMatch, ytNumbersOk)

----------------------------------------------------------------------------
(* group_detail (views.py lines 644-837)                                    *)

\* `x or 0` for a nullable count
OrZero(x) == IF x = NullCount THEN 0 ELSE x[1]

\* sum(reactions.values())
RECURSIVE SumValues(_)
SumValues(values) ==
    IF values = <<>> THEN 0 ELSE values[1] + SumValues(Tail(values))

\* Lines 652-654 and 662-664: the sort key and the listed total.
total_engagement(post) ==
    (IF post.reactions.dict THEN SumValues(post.reactions.values) ELSE 0)
    + OrZero(post.comment_count)
    + OrZero(post.share_count)

\* The totals below 1000 that end in 5 and whose hundredth round() takes up:
\* total / 100 is a double, and round(x, 1) rounds the double, which lies
\* just above or just below the decimal tie.
TiesRoundedUp ==
    {5, 45, 55, 65, 75, 105, 135, 155, 175, 185, 235, 245, 275, 285, 295,
     335, 345, 375, 385, 395, 415, 445, 465, 475, 495, 515, 545, 565, 575,
     595, 615, 645, 665, 675, 695, 715, 745, 765, 775, 795, 805, 815, 855,
     865, 875, 905, 915, 955, 965, 975}

\* round(total / 100, 1), in tenths.  From 1000 on the direction of a tie
\* makes no difference to the capped rate.
RoundTenths(total) ==
    IF total % 10 = 5
    THEN (IF total \in TiesRoundedUp THEN total \div 10 + 1 ELSE total \div 10)
    ELSE (total + 5) \div 10

\* The rate without the cap of line 669.
engagement_rate_uncapped(total) == RoundTenths(total)

\* Lines 668-669, in tenths: min(round(total / 100, 1), 10.0)
engagement_rate(total) ==
    IF RoundTenths(total) < 100 THEN RoundTenths(total) ELSE 100

\* FacebookPost.objects.filter(page__in=pages) for the pages of the group
GroupPosts(group_id) ==
    {i \in DOMAIN posts : pages[posts[i].page].group = group_id}

\* sorted(..., key=total engagement, reverse=True): the rows of S, largest
\* key first, rows of equal key in table order.
RECURSIVE SortedByEngagement(_)
SortedByEngagement(S) ==
    IF S = {} THEN <<>>
    ELSE LET first == CHOOSE i \in S : \A j \in S :
                          \/ total_engagement(posts[i]) > total_engagement(posts[j])
                          \/ (total_engagement(posts[i]) = total_engagement(posts[j])
                              /\ i <= j)
         IN  <<first>> \o SortedByEngagement(S \ {first})

Top10 == 10

\* Lines 649-684: top10_posts_data
top10_posts_data(group_id) ==
    LET dated == {i \in GroupPosts(group_id) : posts[i].post_timestamp_dt # None}
        order == SortedByEngagement(dated)
        top10_posts == SubSeq(order, 1, IF Len(order) < Top10 THEN Len(order) ELSE Top10)
    IN  [k \in DOMAIN top10_posts |->
            [row |-> top10_posts[k],
             post_id |-> posts[top10_posts[k]].post_id,
             total_engagement |-> total_engagement(posts[top10_posts[k]]),
             engagement_rate |-> engagement_rate(total_engagement(posts[top10_posts[k]]))]]

\* Lines 753-754: posts_grouped_by_day adds comment_count and share_count as
\* they are; None + int raises TypeError.
PostsByDayRaises(group_id) ==
    \E i \in GroupPosts(group_id) :
        /\ posts[i].post_timestamp_dt # None
        /\ (posts[i].comment_count = NullCount \/ posts[i].share_count = NullCount)

group_detail(group_id) ==
    /\ UNCHANGED <<groups, pages, posts>>
    /\ pgLast' = IF get_object_or_404(groups, group_id) = "Http404"
                 THEN Response("group_detail", 404, "not_found") @@ Req(group_id)
                 ELSE IF PostsByDayRaises(group_id)
                 THEN Response("group_detail", 500, "exception") @@ Req(group_id)
                 ELSE Response("group_detail", 200, "group_detail.html")
                      @@ [Req(group_id) EXCEPT !.top10 = top10_posts_data(group_id)]

----------------------------------------------------------------------------
(* pageview (views.py lines 860-1147)                                       *)

\* The local names bound before the platform test (views.py lines 861-867).
PageviewLocalsAlways ==
    {"page", "facebook_posts", "facebook_posts_top10", "facebook_posts_flop10",
     "scatter_data", "posts_by_day_data"}

\* The local names bound only inside `if page.platform == "facebook":`
\* (views.py lines 869-1129).
PageviewLocalsFacebook ==
    {"posts_by_day_json", "posts_grouped_by_time", "best_times_bubble",
     "top_hashtags", "follower_data", "bar_day_labels", "bar_day_values",
     "bar_day_colors"}

\* The local names the render call reads (views.py lines 1131-1147).
PageviewRenderReads ==
    {"page", "facebook_posts", "facebook_posts_top10", "facebook_posts_flop10",
     "scatter_data", "follower_data", "posts_by_day_data", "bar_day_labels",
     "bar_day_values", "best_times_bubble", "bar_day_colors", "top_hashtags",
     "posts_by_day_json", "posts_grouped_by_time"}

PostsOfPage(page_id) == {i \in DOMAIN posts : posts[i].page = page_id}

\* The loop of views.py lines 877-898 sets total_engagement only on the posts
\* it does not skip: those with a post_timestamp_dt.
HasTotalEngagement(i) == posts[i].post_timestamp_dt # None

pageview(page_id) ==
    /\ UNCHANGED <<groups, pages, posts>>
    /\ IF get_object_or_404(DOMAIN pages, page_id) = "Http404"
       THEN pgLast' = Response("pageview", 404, "not_found") @@ Req(page_id)
       ELSE LET platform == pages[page_id].platform
                run == [Req(page_id) EXCEPT !.platform = platform]
                bound == IF platform = "facebook"
                         THEN PageviewLocalsAlways \cup PageviewLocalsFacebook
                         ELSE PageviewLocalsAlways
            IN  IF platform = "facebook"
                   /\ \E i \in PostsOfPage(page_id) : ~HasTotalEngagement(i)
                THEN \* sorted(..., key=lambda p: p.total_engagement): AttributeError
                     pgLast' = Response("pageview", 500, "exception") @@ run
                ELSE IF ~(PageviewRenderReads \subseteq bound)
                THEN \* UnboundLocalError on the first name not bound
                     pgLast' = Response("pageview", 500, "exception") @@ run
                ELSE pgLast' = Response("pageview", 200, "pageview.html") @@ run

----------------------------------------------------------------------------
(* The page-tracking subsystem as a state machine                           *)

Methods == {"GET", "POST"}

\* One PageGroup exists (create_group made it); id 2 is the id of no group.
GroupIds == {1, 2}

----------------------------------------------------------------------------
(* Strings: a Python str is a sequence of one-character strings             *)

\* The token "https://x.com" stands for a scheme and a host that
\* URLValidator accepts; no operation of the program looks inside it.
Origin == "https://x.com"

\* str.lower(), character by character.
UpperLetters == <<"A", "B", "C", "D", "E", "F", "G", "H", "I", "J", "K", "L", "M",
                  "N", "O", "P", "Q", "R", "S", "T", "U", "V", "W", "X", "Y", "Z">>
LowerLetters == <<"a", "b", "c", "d", "e", "f", "g", "h", "i", "j", "k", "l", "m",
                  "n", "o", "p", "q", "r", "s", "t", "u", "v", "w", "x", "y", "z">>

LowerChar(c) ==
    IF \E k \in DOMAIN UpperLetters : UpperLetters[k] = c
    THEN LowerLetters[CHOOSE k \in DOMAIN UpperLetters : UpperLetters[k] = c]
    ELSE c

Lower(s) == [i \in DOMAIN s |-> LowerChar(s[i])]

\* s[a..b], the empty string when a > b.
Slice(s, a, b) == IF a > b THEN <<>> ELSE SubSeq(s, a, b)

\* The first position of a character of cs in s, Len(s) + 1 when none is.
FirstOf(s, cs) ==
    IF \E i \in DOMAIN s : s[i] \in cs
    THEN CHOOSE i \in DOMAIN s : s[i] \in cs /\ \A j \in 1..(i - 1) : s[j] \notin cs
    ELSE Len(s) + 1

\* `needle in hay`: a contiguous occurrence.
Contains(hay, needle) ==
    \E k \in 0..(Len(hay) - Len(needle)) :
        \A j \in DOMAIN needle : hay[k + j] = needle[j]

\* Django's field__icontains: a contiguous occurrence, letter case ignored.
icontains(hay, needle) == Contains(Lower(hay), Lower(needle))

\* str.rstrip('/')
RECURSIVE rstrip_slash(_)
rstrip_slash(s) ==
    IF s # <<>> /\ s[Len(s)] = "/" THEN rstrip_slash(Slice(s, 1, Len(s) - 1)) ELSE s

\* The characters urllib.parse.unquote decodes from the %XX escapes the
\* model's strings hold.
HexDecoded(a, b) ==
    CASE a = "2" /\ b = "F" -> "/"
      [] a = "3" /\ b = "F" -> "?"
      [] OTHER              -> NoKey

\* urllib.parse.unquote: every %XX with a known code becomes its character,
\* anything else stays as it is.
RECURSIVE unquote(_)
unquote(s) ==
    IF s = <<>> THEN <<>>
    ELSE IF s[1] = "%" /\ Len(s) >= 3 /\ HexDecoded(s[2], s[3]) # NoKey
    THEN <<HexDecoded(s[2], s[3])>> \o unquote(Slice(s, 4, Len(s)))
    ELSE <<s[1]>> \o unquote(Slice(s, 2, Len(s)))

\* URLValidator()(url) for the model's strings: a scheme and a host, then
\* nothing or [/?#] and any characters without whitespace.
URLValidator(url) ==
    /\ url # <<>>
    /\ url[1] = Origin
    /\ Len(url) >= 2 => url[2] \in {"/", "?", "#"}
    /\ \A i \in DOMAIN url : url[i] # " "

\* urlparse(url) for a string that starts with a scheme and a host: the
\* fragment is what follows the first "#", the query what follows the first
\* "?" before it, the path what lies between the host and those.
urlparse(url) ==
    LET hash  == FirstOf(url, {"#"})
        nofrag == Slice(url, 1, hash - 1)
        qmark == FirstOf(nofrag, {"?"})
    IN  [origin   |-> Slice(url, 1, 1),
         path     |-> Slice(nofrag, 2, qmark - 1),
         query    |-> Slice(nofrag, qmark + 1, Len(nofrag)),
         fragment |-> Slice(url, hash + 1, Len(url))]

\* ParseResult.geturl(): the parts put together again, "?" and "#" only
\* before a query or a fragment that is not empty.
geturl(parts) ==
    parts.origin \o parts.path
    \o (IF parts.query = <<>> THEN <<>> ELSE <<"?">> \o parts.query)
    \o (IF parts.fragment = <<>> THEN <<>> ELSE <<"#">> \o parts.fragment)

\* normalize_url without its rstrip('/'): a reading that keeps trailing
\* slashes.
normalize_url_keeps_slash(url) ==
    geturl([urlparse(url) EXCEPT !.query = <<>>, !.fragment = <<>>])

\* normalize_url (views.py lines 114-115)
normalize_url(url) ==
    rstrip_slash(geturl([urlparse(url) EXCEPT !.query = <<>>, !.fragment = <<>>]))

----------------------------------------------------------------------------
(* The comment-dashboard handlers: rows, scraper results, request records   *)

\* like_status / share_status literals.  The Thai literals of the source are
\* named here by their meaning.
LIKED_TH      == "th:liked already"       \* views.py lines 219 and 313
NOT_LIKED_TH  == "th:not liked yet"       \* views.py line 313
SHARED_TH     == "th:shared already"      \* views.py line 314
NOT_SHARED_TH == "th:not shared yet"      \* views.py line 314
UNSPECIFIED   == "th:unspecified"         \* views.py lines 165 and 170

\* A column the create() call does not set holds the model's default.
ColumnDefault == "<column default>"

\* One comment as a comment scraper returns it.
ScrapedComment(author, timestamp_text) ==
    [author |-> author, timestamp_text |-> timestamp_text]

\* What the scrapers of one request give: failed is the position, in the
\* order the flow awaits them, of the scraper that raises (0 when none does).
Scrape(failed, scraped, likes, shares, screenshot) ==
    [failed |-> failed, comments |-> scraped, likes |-> likes, shares |-> shares,
     screenshot |-> screenshot]

NoView == [target |-> <<>>, dashboard |-> 0, loaded |-> {}, liked |-> {},
           unliked |-> {}, category_table |-> {}, category_comments |-> <<>>]

\* The request as the handler received it, and the tables' sizes before it.
CmReq(op, url, dtype) ==
    [op |-> op, method |-> NoKey, url |-> url, url_param |-> <<>>, dtype |-> dtype,
     dashBefore |-> Len(dashboards), comBefore |-> Len(comments),
     scraped |-> 0, calls |-> <<>>] @@ NoView

CmResponse(req, status, view) == [status |-> status, view |-> view] @@ req

\* FacebookComment.objects.create(...) of views.py lines 271-281: like_status
\* and share_status are not set.
SeedingRow(post_url, dashboard, c) ==
    [post_url |-> post_url, dashboard |-> dashboard, author |-> c.author,
     timestamp_text |-> c.timestamp_text, like_status |-> ColumnDefault,
     share_status |-> ColumnDefault, category |-> categoryDefault,
     sentiment |-> ColumnDefault]

\* FacebookComment.objects.create(...) of views.py lines 303-315.
ActivityRowTh(post_url, dashboard, c, like_names, share_names) ==
    [post_url |-> post_url, dashboard |-> dashboard, author |-> c.author,
     timestamp_text |-> c.timestamp_text,
     like_status |-> IF c.author \in like_names THEN LIKED_TH ELSE NOT_LIKED_TH,
     share_status |-> IF c.author \in share_names THEN SHARED_TH ELSE NOT_SHARED_TH,
     category |-> categoryDefault, sentiment |-> ColumnDefault]

\* FacebookComment.objects.create(...) of views.py lines 62-77.
ActivityRowEn(post_url, dashboard, c, like_names, share_names) ==
    [post_url |-> post_url, dashboard |-> dashboard, author |-> c.author,
     timestamp_text |-> c.timestamp_text,
     like_status |-> IF c.author \in like_names THEN "liked" ELSE "not_liked",
     share_status |-> IF c.author \in share_names THEN "shared" ELSE "not_shared",
     category |-> categoryDefault, sentiment |-> ColumnDefault]

\* `not x` for a scraped field: None or the empty string
Falsy(x) == x \in {None, ""}

\* A request parameter is a Python str, that is a sequence of characters, or
\* None when the request does not carry it: Absent stands for that None.
Absent == <<"<absent>">>

\* `not x` for a request parameter
NoText(x) == x \in {Absent, <<>>}

----------------------------------------------------------------------------
(* add_comment_url (views.py lines 232-319)                                 *)

\* request.POST.get("dashboard_type") or "seeding" (views.py lines 236, 241)
DefaultDashboardType == "seeding"

EffectiveType(dtype) == IF dtype \in {NoKey, ""} THEN DefaultDashboardType ELSE dtype

\* The scrapers each flow awaits, in order, named by the module that defines
\* them (the imports of views.py lines 19-31).
SeedingScrapers  == <<"fb_comment_info.run_fb_comment_scraper">>
ActivityScrapers == <<"fb_comment.run_fb_comment_scraper",
                      "fb_like.run_fb_like_scraper", "fb_share.run_fb_share_scraper">>
PipelineScrapers == <<"fb_comment_info.run_fb_comment_scraper",
                      "fb_like.run_fb_like_scraper", "fb_share.run_fb_share_scraper">>

\* scrape.failed is the position of the scraper that raises, 0 for none.
Raises(order, scrape) == scrape.failed \in DOMAIN order
Calls(order, scrape) ==
    IF Raises(order, scrape) THEN SubSeq(order, 1, scrape.failed) ELSE order

SeedingRowsRawUrl(link_url, normalized_link_url, dashboard, scraped) ==
    [k \in DOMAIN scraped |-> SeedingRow(link_url, dashboard, scraped[k])]

\* The rows the loop of views.py lines 270-281 creates.
SeedingRows(link_url, normalized_link_url, dashboard, scraped) ==
    [k \in DOMAIN scraped |-> SeedingRow(normalized_link_url, dashboard, scraped[k])]

\* The rows the loop of views.py lines 301-315 creates.
ActivityRows(normalized_link_url, dashboard, scrape) ==
    [k \in DOMAIN scrape.comments |->
        ActivityRowTh(normalized_link_url, dashboard, scrape.comments[k],
                      scrape.likes, scrape.shares)]

add_comment_url(method, link_url, nameGiven, dtype, Scrapes) ==
    LET req == [CmReq("add_comment_url", link_url, dtype) EXCEPT !.method = method]
    IN
    /\ UNCHANGED categoryDefault
    /\ IF method \notin {"POST", "GET"}
       THEN /\ cmLast' = CmResponse(req, 302, "index")
            /\ UNCHANGED <<dashboards, comments>>
       ELSE IF method = "POST" /\ ~nameGiven /\ link_url = Absent
       THEN \* extract_post_id(None): re.search raises TypeError (line 235)
            /\ cmLast' = CmResponse(req, 500, "exception")
            /\ UNCHANGED <<dashboards, comments>>
       ELSE IF NoText(link_url) \/ ~URLValidator(link_url)
       THEN /\ cmLast' = CmResponse(req, 400, "plain text")
            /\ UNCHANGED <<dashboards, comments>>
       ELSE
       LET normalized_link_url == normalize_url(link_url)
           dashboard_type == EffectiveType(dtype)
           dashboard == Len(dashboards) + 1
           order == IF dashboard_type = "seeding" THEN SeedingScrapers
                    ELSE IF dashboard_type = "activity" THEN ActivityScrapers
                    ELSE <<>>
       IN  \E scrape \in Scrapes :
           LET ran == [req EXCEPT !.calls = Calls(order, scrape),
                                  !.scraped = IF order = <<>> \/ Raises(order, scrape)
                                              THEN 0 ELSE Len(scrape.comments)]
           IN
           /\ dashboards' = Append(dashboards,
                 [link_url |-> normalized_link_url, dashboard_type |-> dashboard_type,
                  screenshot |-> (dashboard_type = "seeding" /\ ~Raises(order, scrape)
                                  /\ scrape.screenshot),
                  via |-> "add_comment_url"])
           /\ IF Raises(order, scrape)
              THEN /\ comments' = comments
                   /\ cmLast' = CmResponse(ran, 500, "exception")
              ELSE /\ comments' = comments \o
                        (IF dashboard_type = "seeding"
                         THEN SeedingRows(link_url, normalized_link_url, dashboard,
                                          scrape.comments)
                         ELSE IF dashboard_type = "activity"
                         THEN ActivityRows(normalized_link_url, dashboard, scrape)
                         ELSE <<>>)
                   /\ cmLast' = CmResponse(ran, 302, "comment-dashboard")

----------------------------------------------------------------------------
(* add_activity_dashboard and run_activity_pipeline (views.py lines 41-97)  *)

\* The comments run_activity_pipeline keeps: `if not author: continue`.
RECURSIVE WithAuthor(_)
WithAuthor(scraped) ==
    IF scraped = <<>> THEN <<>>
    ELSE (IF Falsy(scraped[1].author) THEN <<>> ELSE <<scraped[1]>>)
         \o WithAuthor(Tail(scraped))

run_activity_pipeline(post_url, dashboard, scrape) ==
    LET kept == WithAuthor(scrape.comments)
    IN  [k \in DOMAIN kept |->
            ActivityRowEn(post_url, dashboard, kept[k], scrape.likes, scrape.shares)]

add_activity_dashboard(method, post_url, Scrapes) ==
    LET req == CmReq("add_activity_dashboard", post_url, "activity")
    IN
    /\ UNCHANGED categoryDefault
    /\ IF method # "POST"
       THEN \* the view returns None: the framework raises ValueError
            /\ cmLast' = CmResponse(req, 500, "exception")
            /\ UNCHANGED <<dashboards, comments>>
       ELSE IF NoText(post_url)
       THEN /\ cmLast' = CmResponse(req, 400, "plain text")
            /\ UNCHANGED <<dashboards, comments>>
       ELSE
       \E scrape \in Scrapes :
       LET dashboard == Len(dashboards) + 1
           ran == [req EXCEPT !.calls = Calls(PipelineScrapers, scrape),
                              !.scraped = IF Raises(PipelineScrapers, scrape)
                                          THEN 0 ELSE Len(scrape.comments)]
       IN  /\ dashboards' = Append(dashboards,
                 [link_url |-> post_url, dashboard_type |-> "activity",
                  screenshot |-> FALSE, via |-> "add_activity_dashboard"])
           /\ IF Raises(PipelineScrapers, scrape)
              THEN /\ comments' = comments
                   /\ cmLast' = CmResponse(ran, 500, "exception")
              ELSE /\ comments' = comments \o run_activity_pipeline(post_url, dashboard, scrape)
                   /\ cmLast' = CmResponse(ran, 302, "comment-dashboard")

----------------------------------------------------------------------------
(* comment_dashboard_view (views.py lines 120-228)                          *)

NoneLiteral == <<"N", "o", "n", "e">>      \* the string "None" (line 123)

\* views.py lines 121-125
TargetPostUrl(post_url, url) ==
    IF NoText(post_url) \/ post_url = NoneLiteral
    THEN unquote(IF url = Absent THEN <<>> ELSE url)
    ELSE post_url

DashboardMatchesCaseSensitive(d, target) == Contains(dashboards[d].link_url, target)

\* FBCommentDashboard.objects.filter(link_url__icontains=target) (line 130)
DashboardMatches(d, target) == icontains(dashboards[d].link_url, target)

MatchingDashboards(target) == {d \in DOMAIN dashboards : DashboardMatches(d, target)}

\* .order_by("-created_at").first(): the row created last
MostRecent(ds) == CHOOSE d \in ds : \A e \in ds : e <= d

\* FacebookComment.objects.filter(post_url=target).exclude(timestamp_text
\* null).exclude(timestamp_text="") (views.py lines 135-136)
AllComments(target) ==
    {c \in DOMAIN comments :
        /\ comments[c].post_url = target
        /\ comments[c].timestamp_text \notin {None, ""}}

\* .values('category').annotate(count=Count('category')) (line 164): one
\* entry per stored value, NULL being a value of its own; Count('category')
\* counts the rows of the group whose category is not NULL.  The label of
\* line 165 stands beside the value.
CategoryTable(all) ==
    {[value |-> v,
      label |-> IF v \in {None, ""} THEN UNSPECIFIED ELSE v,
      count |-> Cardinality({c \in all : comments[c].category = v /\ v # None})]
        : v \in {comments[c].category : c \in all}}

CategoryLabels(all) == {e.label : e \in CategoryTable(all)}

\* all_comments.filter(category=cat) for each label (views.py lines 174-179)
CategoryComments(all) ==
    [cat \in CategoryLabels(all) |-> {c \in all : comments[c].category = cat}]

comment_dashboard_view(post_url, url) ==
    LET target == TargetPostUrl(post_url, url)
        req == [CmReq("comment_dashboard_view", post_url, NoKey)
                   EXCEPT !.target = target, !.url_param = url]
    IN
    /\ UNCHANGED <<dashboards, comments, categoryDefault>>
    /\ IF target = <<>>
       THEN cmLast' = CmResponse(req, 400, "plain text")
       ELSE IF MatchingDashboards(target) = {}
       THEN cmLast' = CmResponse(req, 404, "plain text")
       ELSE
       LET dashboard == MostRecent(MatchingDashboards(target))
           all == AllComments(target)
           isActivity == dashboards[dashboard].dashboard_type = "activity"
       IN  cmLast' = CmResponse(
               [req EXCEPT !.dashboard = dashboard,
                           !.loaded = all,
                           !.category_table = CategoryTable(all),
                           !.category_comments = CategoryComments(all),
                           !.liked = IF isActivity
                                     THEN {c \in all : comments[c].like_status = LIKED_TH}
                                     ELSE {},
                           !.unliked = IF isActivity
                                       THEN {c \in all : comments[c].like_status # LIKED_TH}
                                       ELSE {}],
               200, "comment_dashboard.html")

----------------------------------------------------------------------------
(* analyze_sentiment_and_category (ai_sentiment_analyzer.py lines 12-109)   *)

Whitespace == {" ", "\n", "\t"}

\* str.strip()
RECURSIVE Strip(_)
Strip(s) ==
    IF s = <<>> THEN <<>>
    ELSE IF s[1] \in Whitespace THEN Strip(Tail(s))
    ELSE IF s[Len(s)] \in Whitespace THEN Strip(Slice(s, 1, Len(s) - 1))
    ELSE s

\* A JSON value as json.loads gives it: a str, None, a number, or no value
\* at all for a key the object does not hold.
JString(t) == [type |-> "string", text |-> t]
JNull      == [type |-> "null", text |-> <<>>]
JNumber    == [type |-> "number", text |-> <<>>]
JMissing   == [type |-> "missing", text |-> <<>>]

JObject(sentiment, reason, keyword_group, category) ==
    [sentiment |-> sentiment, reason |-> reason, keyword_group |-> keyword_group,
     category |-> category]

EmptyObject == JObject(JMissing, JMissing, JMissing, JMissing)

\* The message content is a sequence of pieces: a code fence, prose without
\* braces, a lone brace, or the text of one JSON object.
Piece(kind) == [kind |-> kind, obj |-> EmptyObject]
ObjectText(obj) == [kind |-> "object", obj |-> obj]

IsNotFence(piece) == piece.kind \notin {"fence json", "fence"}

\* re.sub of line 77 takes the code fences, with or without the word json,
\* out of the content; strip() removes only whitespace around the pieces.
RemoveFences(raw) == SelectSeq(raw, IsNotFence)

\* re.search of line 80, a greedy match: from the first opening brace to the
\* last closing brace after it; <<>> when there is no such span.
BraceMatch(clean) ==
    LET opens  == {k \in DOMAIN clean : clean[k].kind \in {"{", "object"}}
        closes == {k \in DOMAIN clean : clean[k].kind \in {"}", "object"}}
        first  == CHOOSE k \in opens : \A j \in opens : k <= j
        last   == CHOOSE k \in closes : \A j \in closes : j <= k
    IN  IF opens # {} /\ closes # {} /\ first <= last
        THEN SubSeq(clean, first, last)
        ELSE <<>>

\* json.loads(match.group()) (line 82) succeeds on the text of one object,
\* and on an opening brace followed by a closing one: the empty object.
JsonLoads(text) ==
    \/ Len(text) = 1
    \/ Len(text) = 2 /\ text[1].kind = "{" /\ text[2].kind = "}"

json_loads(text) == IF Len(text) = 1 THEN text[1].obj ELSE EmptyObject

\* result.get(key, "") (lines 87, 99-101)
GetOrEmpty(value) == IF value.type = "missing" THEN JString(<<>>) ELSE value

POSITIVE == <<"P", "o", "s", "i", "t", "i", "v", "e">>     \* line 89
NEUTRAL  == <<"n", "e", "u", "t", "r", "a", "l">>          \* line 91
NEGATIVE == <<"n", "e", "g", "a", "t", "i", "v", "e">>     \* line 93

SentimentCaseSensitive(sentiment) ==
    IF sentiment \in {POSITIVE, NEUTRAL, NEGATIVE} THEN sentiment ELSE <<>>

\* lines 88-95, for the stripped label
Sentiment(sentiment) ==
    IF Lower(sentiment) = Lower(POSITIVE) THEN POSITIVE
    ELSE IF Lower(sentiment) = NEUTRAL THEN NEUTRAL
    ELSE IF Lower(sentiment) = NEGATIVE THEN NEGATIVE
    ELSE <<>>

Result(sentiment, reason, keyword_group, category) ==
    [sentiment |-> sentiment, reason |-> reason, keyword_group |-> keyword_group,
     category |-> category]

\* line 109
AllEmpty == Result(<<>>, <<>>, <<>>, <<>>)

\* What a call gave: parsed is the object json.loads returned, when it did.
Returned(result, parsed) == [outcome |-> "returned", result |-> result, parsed |-> parsed]
Raised == [outcome |-> "raised", result |-> AllEmpty, parsed |-> <<>>]

\* response.kind: "api raises" when client.chat.completions.create does
\* (lines 64-71, outside the try), "no choices" when choices[0] is not there,
\* "content None" when the message has no content, else "content" and
\* response.content holds the pieces of the message.
analyze_sentiment_and_category(response) ==
    IF response.kind = "api raises" THEN Raised
    ELSE IF response.kind = "no choices"
    THEN Raised     \* IndexError at line 74; line 108 then reads raw, unbound
    ELSE IF response.kind = "content None"
    THEN Returned(AllEmpty, <<>>)      \* re.sub raises TypeError
    ELSE
    LET text == BraceMatch(RemoveFences(response.content))
    IN  IF text = <<>> \/ ~JsonLoads(text)
        THEN Returned(AllEmpty, <<>>)
        ELSE
        LET result == json_loads(text)
            sentiment     == GetOrEmpty(result.sentiment)
            reason        == GetOrEmpty(result.reason)
            keyword_group == GetOrEmpty(result.keyword_group)
            category      == GetOrEmpty(result.category)
        IN  IF \E v \in {sentiment, reason, keyword_group, category} : v.type # "string"
            THEN Returned(AllEmpty, <<result>>)     \* .strip() raises AttributeError
            ELSE Returned(Result(Sentiment(Strip(sentiment.text)), Strip(reason.text),
                                 Strip(keyword_group.text), Strip(category.text)),
                          <<result>>)

\* A call that has its response and has not yet handled it.
Pending(response) ==
    [response |-> response, outcome |-> "pending", result |-> AllEmpty,
     parsed |-> <<>>]

Analyze ==
    /\ snLast.outcome = "pending"
    /\ snLast' = [response |-> snLast.response]
                  @@ analyze_sentiment_and_category(snLast.response)

----------------------------------------------------------------------------
(* Initial state and the specifications                                     *)

\* One PageGroup exists (create_group made it) and every other table is
\* empty.  The default of FacebookComment.category is NULL or '': either is
\* fixed for the whole behaviour.
\* No reel scraper has been started.
NoScraper ==
    [pc |-> "idle", browser |-> "none", context |-> "none", exit |-> "none",
     shown |-> 0, seen_ids |-> {}, batch |-> <<>>, empty_fetch_retries |-> 0,
     empty_batch_retries |-> 0, batch_index |-> 1, all_results |-> <<>>,
     tasks |-> <<>>, before |-> <<>>, collected |-> <<>>]

InitTables ==
    /\ reel = NoScraper
    /\ groups = {1}
    /\ pages = <<>>
    /\ posts = <<>>
    /\ pgLast = Response("none", 0, "none") @@ NoRun
    /\ dashboards = <<>>
    /\ comments = <<>>
    /\ categoryDefault \in {None, ""}
    /\ cmLast = CmResponse(CmReq("none", <<>>, NoKey), 0, "none")

\* No helper function has been called.
NoCall == [fn |-> "none", outcome |-> "none"]

\* No call of the sentiment service is under way.
Init ==
    /\ InitTables
    /\ snLast = [response |-> [kind |-> "none", content |-> <<>>]] @@ Raised
    /\ fnLast = NoCall

(* The page handlers *)

InitPages == Init /\ categoryDefault = None

OnlyPages == UNCHANGED <<commentVars, snLast, fnLast, reel>>
OnlyComments == UNCHANGED <<pageVars, snLast, fnLast, reel>>
OnlySentiment == UNCHANGED <<pageVars, commentVars, fnLast, reel>>
OnlyHelper == UNCHANGED <<pageVars, commentVars, snLast, reel>>
OnlyReel == UNCHANGED <<pageVars, commentVars, snLast, fnLast>>

NextPages ==
    \/ \E group_id \in GroupIds, method \in Methods,
          platform \in Platforms \cup {"other"}, urlOk \in BOOLEAN :
            add_page(group_id, method, platform, urlOk) /\ OnlyPages
    \/ \E group_id \in GroupIds : group_detail(group_id) /\ OnlyPages
    \/ \E page_id \in 1..(MaxPages + 1) : pageview(page_id) /\ OnlyPages

SpecPages == InitPages /\ [][NextPages]_vars

(* URLs of the requests *)

U_A     == <<Origin, "/", "p">>
U_Aq    == <<Origin, "/", "p", "/", "?", "q">>
U_Upper == <<Origin, "/", "P">>
U_Long  == <<Origin, "/", "p", "/", "1">>
U_Other == <<Origin, "/", "q">>
U_Enc   == <<Origin, "%", "2", "F", "p">>

(* add_comment_url of any type, and the view of what it stored *)

SeedComments == {ScrapedComment("a", "t"), ScrapedComment("b", None)}

\* A scraper that raises returns nothing.
SeedScrapes ==
    {Scrape(0, scraped, {}, {}, TRUE) : scraped \in SeqsUpTo(SeedComments, MaxScrape)}
        \cup {Scrape(1, <<>>, {}, {}, TRUE)}

NextSeed ==
    \/ /\ Len(dashboards) < MaxDashboards
       /\ \E method \in Methods \cup {"PUT"},
             link_url \in {Absent, <<"p">>, U_A, U_Aq},
             dtype \in {NoKey, "", "organic"} :
               \E nameGiven \in IF link_url = Absent THEN BOOLEAN ELSE {TRUE} :
                   add_comment_url(method, link_url, nameGiven, dtype, SeedScrapes)
       /\ OnlyComments
    \/ \E post_url \in {U_A, U_Aq} :
          comment_dashboard_view(post_url, Absent) /\ OnlyComments

InitSeed == Init /\ categoryDefault = None

SpecSeed == InitSeed /\ [][NextSeed]_vars

(* Resolving the dashboard of a URL *)

OneComment == {Scrape(0, <<ScrapedComment("a", "t")>>, {}, {}, FALSE)}

NextDash ==
    \/ /\ Len(dashboards) < MaxResolved
       /\ \E link_url \in {U_A, U_Upper, U_Long} :
               add_comment_url("POST", link_url, TRUE, NoKey, OneComment)
       /\ OnlyComments
    \/ \E post_url \in {Absent, <<>>, NoneLiteral, U_A, U_Upper, U_Long, U_Other,
                        <<"/", "p">>},
          url \in {Absent, <<>>, U_Enc, U_Other} :
            comment_dashboard_view(post_url, url) /\ OnlyComments

SpecDash == Init /\ [][NextDash]_vars

(* Activity dashboards made by either handler *)

ActivityComments == {ScrapedComment("a", "t"), ScrapedComment("", "t")}

ActivityScrapes ==
    {Scrape(failed, scraped, likes, shares, FALSE) :
        failed \in 0..3, scraped \in SeqsUpTo(ActivityComments, MaxScrape),
        likes \in {{}, {"a"}}, shares \in {{}, {"a"}}}

NextActivity ==
    \/ /\ Len(dashboards) < MaxDashboards
       /\ \E method \in Methods, post_url \in {Absent, U_A, U_Aq} :
               add_activity_dashboard(method, post_url, ActivityScrapes)
       /\ OnlyComments
    \/ /\ Len(dashboards) < MaxDashboards
       /\ \E link_url \in {U_A, U_Aq} :
               add_comment_url("POST", link_url, TRUE, "activity", ActivityScrapes)
       /\ OnlyComments
    \/ \E post_url \in {U_A, U_Aq} :
          comment_dashboard_view(post_url, Absent) /\ OnlyComments

SpecActivity == Init /\ [][NextActivity]_vars

(* The sentiment service *)

Pads == SeqsUpTo({" ", "\n"}, MaxPad)

Words == {POSITIVE, Lower(POSITIVE),
          <<"P", "O", "S", "I", "T", "I", "V", "E">>,
          NEUTRAL, <<"N", "e", "u", "t", "r", "a", "l">>,
          NEGATIVE, <<"N", "e", "g", "a", "t", "i", "v", "e">>,
          <<"u", "n", "s", "u", "r", "e">>,
          <<"p", "o", "s", "i", " ", "t", "i", "v", "e">>,
          <<>>}

NotStrings == {JMissing, JNull, JNumber}

SentimentValues ==
    NotStrings \cup {JString(l \o w \o r) : l \in Pads, w \in Words, r \in Pads}

ReasonValues ==
    NotStrings \cup {JString(<<"r">>), JString(<<" ", "r", " ", "r", "\n">>)}

KeywordValues == {JMissing, JNull, JString(<<"k">>), JString(<<" ", "k", "\n">>)}

\* The shapes a message takes around (or without) an object.
Contents(obj) ==
    {<<ObjectText(obj)>>,
     <<Piece("fence json"), ObjectText(obj), Piece("fence")>>,
     <<Piece("prose"), ObjectText(obj), Piece("prose")>>,
     <<Piece("}"), ObjectText(obj), Piece("{")>>,
     <<ObjectText(obj), Piece("prose"), Piece("}")>>,
     <<ObjectText(obj), ObjectText(obj)>>}

NoObjectContents ==
    {<<>>, <<Piece("prose")>>, <<Piece("{"), Piece("}")>>,
     <<Piece("{"), Piece("prose"), Piece("}")>>, <<Piece("}"), Piece("{")>>,
     <<Piece("fence"), Piece("fence")>>}

\* The function is applied once to a response: one that has no content, one
\* whose content holds no object, or one that holds an object in some shape.
InitSentiment ==
    /\ InitTables
    /\ categoryDefault = None
    /\ fnLast = NoCall
    /\ \/ \E kind \in {"api raises", "no choices", "content None"} :
             snLast = Pending([kind |-> kind, content |-> <<>>])
       \/ \E content \in NoObjectContents :
             snLast = Pending([kind |-> "content", content |-> content])
       \/ \E sentiment \in SentimentValues, reason \in ReasonValues,
             keyword_group \in KeywordValues, category \in KeywordValues :
               \E content \in Contents(JObject(sentiment, reason, keyword_group, category)) :
                   snLast = Pending([kind |-> "content", content |-> content])

NextSentiment == Analyze /\ OnlySentiment

SpecSentiment == InitSentiment /\ [][NextSentiment]_vars

----------------------------------------------------------------------------
(* Claims about the page-tracking subsystem (checked under SpecPages)       *)

\* C1: after any sequence of add_page submissions the Post table holds at
\* most one row per post identifier, and every identifier the last add_page
\* upserted has its single row carrying that request's Page: an item whose
\* post_id already existed overwrote the row instead of adding a second one.
C1_OneRowPerPostId ==
    /\ \A pid \in PostIds : Cardinality(Matching(posts, pid)) <= 1
    /\ pgLast.op = "add_page" =>
         \A pid \in pgLast.written :
            \A i \in Matching(posts, pid) : posts[i].page = Len(pages)

\* A second add_page has upserted an identifier the first one stored, and
\* the table still has the one row.
C1_Witness ==
    /\ pgLast.op = "add_page"
    /\ pgLast.updated # {}
    /\ Len(pages) = 2
    /\ Len(posts) = 1

\* C3 (as claimed): for each of the five platforms, a profile scraper that
\* returns nothing (None or an empty dict) leaves no Page behind and the form
\* is rendered again with an error.
C3_EmptyProfilePersistsNothing ==
    (pgLast.op = "add_page" /\ pgLast.platform \in Platforms
        /\ pgLast.profile \in {None, "empty"})
    => (Len(pages) = pgLast.pagesBefore /\ pgLast.view = "form_error")

\* C4: in add_page for facebook, when the pipeline or the upsert loop raises,
\* the Page created before it is still in the table and the response is the
\* redirect to the Group's detail page.
C4_PipelineFailureKeepsPage ==
    (pgLast.op = "add_page" /\ pgLast.failed # "none")
    => /\ pgLast.status = 302
       /\ pgLast.view = "group_detail"
       /\ Len(pages) = pgLast.pagesBefore + 1
       /\ pages[Len(pages)] = [group |-> pgLast.id, platform |-> "facebook"]

\* The upsert loop raised after it had written a row, and the request was
\* still answered.
C4_Witness ==
    /\ pgLast.op = "add_page"
    /\ pgLast.failed = "loop"
    /\ pgLast.written # {}

\* C5 (as claimed): pageview of an existing Page that is not a facebook Page
\* completes and renders the page.
C5_NonFacebookPageRenders ==
    (pgLast.op = "pageview" /\ pgLast.id \in DOMAIN pages
        /\ pgLast.platform # "facebook")
    => (pgLast.status = 200 /\ pgLast.view = "pageview.html")

\* C6 (as claimed): add_page, group_detail and pageview answer the id of no
\* Group or Page with 404 and persist nothing.
C6_MissingIdIs404 ==
    /\ (pgLast.op \in {"add_page", "group_detail"} /\ pgLast.id \notin groups)
        => (pgLast.status = 404 /\ Len(pages) = pgLast.pagesBefore)
    /\ (pgLast.op = "pageview" /\ pgLast.id \notin DOMAIN pages)
        => (pgLast.status = 404 /\ Len(pages) = pgLast.pagesBefore)

----------------------------------------------------------------------------
(* Claims about the comment dashboards                                      *)

\* C2: a successful add_comment_url request with a well-formed URL and no
\* dashboard_type has created exactly one dashboard, of type "seeding", and
\* exactly as many comments as the seeding scraper returned; each of them
\* references that dashboard and holds the normalized URL as its post_url.
C2_SeedingFlow ==
    (/\ cmLast.op = "add_comment_url"
     /\ cmLast.status = 302 /\ cmLast.view = "comment-dashboard"
     /\ cmLast.dtype \in {NoKey, ""})
    => /\ URLValidator(cmLast.url)
       /\ Len(dashboards) = cmLast.dashBefore + 1
       /\ dashboards[Len(dashboards)].dashboard_type = "seeding"
       /\ cmLast.calls = <<"fb_comment_info.run_fb_comment_scraper">>
       /\ Len(comments) = cmLast.comBefore + cmLast.scraped
       /\ \A c \in (cmLast.comBefore + 1)..Len(comments) :
            /\ comments[c].dashboard = Len(dashboards)
            /\ comments[c].post_url = normalize_url(cmLast.url)

\* The second dashboard, from a URL with a trailing slash and a query, and
\* two scraped comments.
C2_Witness ==
    /\ cmLast.op = "add_comment_url" /\ cmLast.status = 302
    /\ cmLast.dtype = NoKey /\ cmLast.url = U_Aq
    /\ cmLast.scraped = 2 /\ Len(dashboards) = 2 /\ Len(comments) >= 3

\* C7, as the code has it: comment_dashboard_view takes post_url, or the
\* decoded url parameter when post_url is absent, empty or the literal
\* "None"; it answers 400 when that leaves no URL, 404 when no dashboard's
\* link URL contains the URL ignoring letter case, and else resolves the
\* dashboard created last among those that do.
C7_ResolvesIgnoringCase ==
    cmLast.op = "comment_dashboard_view" =>
        LET requested ==
                IF cmLast.url \in {Absent, <<>>, NoneLiteral}
                THEN (IF cmLast.url_param = Absent THEN <<>> ELSE unquote(cmLast.url_param))
                ELSE cmLast.url
            hits == {d \in DOMAIN dashboards :
                        Contains(Lower(dashboards[d].link_url), Lower(requested))}
        IN  IF requested = <<>> THEN cmLast.status = 400
            ELSE IF hits = {} THEN cmLast.status = 404
            ELSE /\ cmLast.status = 200
                 /\ cmLast.dashboard \in hits
                 /\ \A d \in hits : d <= cmLast.dashboard

\* The URL comes decoded from the url parameter, three dashboards contain
\* it, and the one created last does so only when letter case is ignored.
C7_Witness ==
    /\ cmLast.op = "comment_dashboard_view" /\ cmLast.status = 200
    /\ cmLast.url = NoneLiteral /\ cmLast.url_param = U_Enc
    /\ cmLast.target = U_A
    /\ Len(dashboards) = 3 /\ cmLast.dashboard = 3
    /\ dashboards[1].link_url = U_A /\ dashboards[2].link_url = U_Long
    /\ dashboards[3].link_url = U_Upper

\* C7 as stated: the resolved dashboard is the one created last among those
\* whose link URL contains the requested URL as a substring, and the answer
\* is 404 when there is none.
C7_ResolvesBySubstring ==
    cmLast.op = "comment_dashboard_view" =>
        LET requested ==
                IF cmLast.url \in {Absent, <<>>, NoneLiteral}
                THEN (IF cmLast.url_param = Absent THEN <<>> ELSE unquote(cmLast.url_param))
                ELSE cmLast.url
            hits == {d \in DOMAIN dashboards :
                        Contains(dashboards[d].link_url, requested)}
        IN  IF requested = <<>> THEN cmLast.status = 400
            ELSE IF hits = {} THEN cmLast.status = 404
            ELSE /\ cmLast.status = 200
                 /\ cmLast.dashboard \in hits
                 /\ \A d \in hits : d <= cmLast.dashboard

\* C8: every loaded comment whose category is absent or empty is in the
\* listing of the label "unspecified"; for every label the reported count is
\* the size of its listing; every loaded comment is in some listing.
C8_UnspecifiedBucket ==
    (cmLast.op = "comment_dashboard_view" /\ cmLast.status = 200) =>
        /\ \A c \in cmLast.loaded :
              comments[c].category \in {None, ""} =>
                  /\ UNSPECIFIED \in DOMAIN cmLast.category_comments
                  /\ c \in cmLast.category_comments[UNSPECIFIED]
        /\ \A e \in cmLast.category_table :
              e.count = Cardinality(cmLast.category_comments[e.label])
        /\ \A c \in cmLast.loaded :
              \E e \in cmLast.category_table : c \in cmLast.category_comments[e.label]

\* C9: when the view resolves a dashboard that add_activity_dashboard made,
\* its liked list is empty and every loaded comment is in its unliked list.
C9_ActivityDashboardNeverLiked ==
    (/\ cmLast.op = "comment_dashboard_view" /\ cmLast.status = 200
     /\ dashboards[cmLast.dashboard].via = "add_activity_dashboard")
    => (cmLast.liked = {} /\ cmLast.unliked = cmLast.loaded)

----------------------------------------------------------------------------
(* Claims about the sentiment service                                       *)

\* C10, as the code has it: a returned sentiment is "Positive", "neutral",
\* "negative" or empty.  When the response holds an object whose four fields
\* are strings or missing, the trimmed label maps to the canonical spelling
\* of positive/neutral/negative whatever its letter case and to the empty
\* string otherwise, and reason, keyword_group and category are the raw
\* values without their surrounding whitespace; for any other response all
\* four fields are empty.
C10_SentimentNormalised ==
    snLast.outcome = "returned" =>
        LET raw(v) == IF v.type = "string" THEN v.text ELSE <<>>
            IsTrimmed(r, t) ==
                /\ r = <<>> \/ (r[1] \notin Whitespace /\ r[Len(r)] \notin Whitespace)
                /\ \E i \in 0..Len(t) :
                      /\ i + Len(r) <= Len(t)
                      /\ \A j \in 1..Len(r) : t[i + j] = r[j]
                      /\ \A j \in 1..Len(t) :
                            (j <= i \/ j > i + Len(r)) => t[j] \in Whitespace
        IN  /\ snLast.result.sentiment \in {POSITIVE, NEUTRAL, NEGATIVE, <<>>}
            /\ IF /\ snLast.parsed # <<>>
                  /\ \A f \in {"sentiment", "reason", "keyword_group", "category"} :
                        snLast.parsed[1][f].type \in {"string", "missing"}
               THEN LET obj == snLast.parsed[1]
                        stripped == Strip(raw(obj.sentiment))
                    IN  /\ IsTrimmed(stripped, raw(obj.sentiment))
                        /\ snLast.result.sentiment =
                              (IF Lower(stripped) = Lower(POSITIVE) THEN POSITIVE
                               ELSE IF Lower(stripped) = Lower(NEUTRAL) THEN NEUTRAL
                               ELSE IF Lower(stripped) = Lower(NEGATIVE) THEN NEGATIVE
                               ELSE <<>>)
                        /\ IsTrimmed(snLast.result.reason, raw(obj.reason))
                        /\ IsTrimmed(snLast.result.keyword_group, raw(obj.keyword_group))
                        /\ IsTrimmed(snLast.result.category, raw(obj.category))
               ELSE snLast.result = AllEmpty

\* An upper-case label with whitespace on both sides, among padded fields.
C10_Witness ==
    /\ snLast.outcome = "returned" /\ snLast.parsed # <<>>
    /\ snLast.parsed[1].sentiment =
          JString(<<" ", "P", "O", "S", "I", "T", "I", "V", "E", "\n">>)
    /\ snLast.parsed[1].reason = JString(<<" ", "r", " ", "r", "\n">>)
    /\ snLast.parsed[1].keyword_group = JString(<<" ", "k", "\n">>)
    /\ snLast.parsed[1].category = JMissing
    /\ snLast.result = Result(POSITIVE, <<"r", " ", "r">>, <<"k">>, <<>>)

\* C10 as stated: for every response that holds an object with a string
\* label, a label that is positive/neutral/negative in any letter case after
\* trimming gives the canonical spelling.
C10_EveryLabelNormalised ==
    (/\ snLast.outcome = "returned" /\ snLast.parsed # <<>>
     /\ snLast.parsed[1].sentiment.type = "string")
    => LET stripped == Strip(snLast.parsed[1].sentiment.text)
       IN  /\ Lower(stripped) = Lower(POSITIVE) => snLast.result.sentiment = POSITIVE
           /\ Lower(stripped) = Lower(NEUTRAL) => snLast.result.sentiment = NEUTRAL
           /\ Lower(stripped) = Lower(NEGATIVE) => snLast.result.sentiment = NEGATIVE

\* C11: a call whose response is missing, or whose content gives no object
\* (no braces, braces around text that is not JSON, two objects), returns to
\* its caller, and what it returns has all four fields empty.
C11_FailureReturnsAllEmpty ==
    (/\ snLast.outcome # "pending"
     /\ snLast.response.kind # "none"
     /\ snLast.parsed = <<>>)
    => (snLast.outcome = "returned" /\ snLast.result = AllEmpty)

\* C12: a flow that collected comments (add_comment_url of type seeding or
\* activity, add_activity_dashboard) has called the sentiment service once
\* for each scraped comment, and each comment it stored holds a sentiment the
\* service gave.
C12_SentimentPerComment ==
    (/\ cmLast.op \in {"add_comment_url", "add_activity_dashboard"}
     /\ cmLast.status = 302 /\ cmLast.view = "comment-dashboard"
     /\ dashboards[Len(dashboards)].dashboard_type \in {"seeding", "activity"})
    => /\ Cardinality({k \in DOMAIN cmLast.calls :
              cmLast.calls[k] = "ai_sentiment_analyzer.analyze_sentiment_and_category"})
          = cmLast.scraped
       /\ \A c \in (cmLast.comBefore + 1)..Len(comments) :
              comments[c].sentiment # ColumnDefault


----------------------------------------------------------------------------
(* fb_reel.py: FBReelScraper._parse_thai_timestamp                          *)
(*                                                                          *)
(* The text is kept as the list text.split() gives.  A token is a run of    *)
(* digits, one of the twelve Thai month names, a clock "hh:mm", or any      *)
(* other word.                                                              *)

Num(n) == [kind |-> "digits", n |-> n, m |-> 0]
Month(k) == [kind |-> "month", n |-> k, m |-> 0]
Clock(h, m) == [kind |-> "clock", n |-> h, m |-> m]
Word == [kind |-> "word", n |-> 0, m |-> 0]

\* str.isdigit()
isdigit(tok) == tok.kind = "digits"

\* int(tok) raises ValueError unless the token is a run of digits.
IntRaises(tok) == tok.kind # "digits"

\* thai_months.get(tok, 0)
thai_months_get(tok) == IF tok.kind = "month" THEN tok.n ELSE 0

IsLeap(year) == (year % 4 = 0 /\ year % 100 # 0) \/ year % 400 = 0

DaysIn(year, month) ==
    IF month = 2 THEN (IF IsLeap(year) THEN 29 ELSE 28)
    ELSE IF month \in {4, 6, 9, 11} THEN 30 ELSE 31

\* datetime(year, month, day, hour, minute) raises ValueError on a field out
\* of range.
DatetimeRaises(year, month, day, hour, minute) ==
    \/ year \notin 1..9999
    \/ month \notin 1..12
    \/ day < 1
    \/ day > DaysIn(year, month)
    \/ hour \notin 0..23
    \/ minute \notin 0..59

datetime(year, month, day, hour, minute) ==
    [year |-> year, month |-> month, day |-> day, hour |-> hour, minute |-> minute]

Epoch == datetime(1970, 1, 1, 0, 0)

TsReturned(value) == [outcome |-> "returned", value |-> value]
TsRaised == [outcome |-> "raised", value |-> Epoch]

\* The body of the try block: TRUE when an exception leaves it (an index
\* past the end of parts, int() of a non-number, a token without exactly one
\* colon, a date out of range).
TryRaises(parts, now_year, withYear) ==
    LET timeAt == IF withYear THEN 6 ELSE 5
    IN  \/ Len(parts) < timeAt
        \/ IntRaises(parts[2])
        \/ (withYear /\ IntRaises(parts[4]))
        \/ parts[timeAt].kind # "clock"
        \/ DatetimeRaises(IF withYear THEN parts[4].n ELSE now_year,
                          thai_months_get(parts[3]), parts[2].n,
                          parts[timeAt].n, parts[timeAt].m)

\* The two-token branch stands before the try: its datetime() is not caught.
TwoToken(parts, now_year) ==
    IF DatetimeRaises(now_year, thai_months_get(parts[2]), parts[1].n, 0, 0)
    THEN TsRaised
    ELSE TsReturned(datetime(now_year, thai_months_get(parts[2]), parts[1].n, 0, 0))

_parse_thai_timestamp(parts, now_year) ==
    IF Len(parts) = 2 /\ isdigit(parts[1])
    THEN TwoToken(parts, now_year)
    ELSE LET withYear == Len(parts) >= 5 /\ isdigit(parts[4])
             timeAt == IF withYear THEN 6 ELSE 5
         IN  IF TryRaises(parts, now_year, withYear)
             THEN TsReturned(Epoch)
             ELSE TsReturned(datetime(IF withYear THEN parts[4].n ELSE now_year,
                                      thai_months_get(parts[3]), parts[2].n,
                                      parts[timeAt].n, parts[timeAt].m))

TsPending(parts, now_year) ==
    [fn |-> "_parse_thai_timestamp", parts |-> parts, now_year |-> now_year,
     outcome |-> "pending", value |-> Epoch]

ParseThaiTimestamp ==
    /\ fnLast.fn = "_parse_thai_timestamp"
    /\ fnLast.outcome = "pending"
    /\ fnLast' = _parse_thai_timestamp(fnLast.parts, fnLast.now_year) @@ fnLast

(* The timestamp parser on its own *)

MaxTokens == 3

TsDays == {0, 1, 29, 30, 31, 32}
TsMonths == {Month(1), Month(2), Month(4), Word}
TsYears == {Num(0), Num(2023), Num(2024)}
TsClocks == {Clock(0, 0), Clock(23, 59), Clock(24, 0), Clock(7, 60), Word}
NowYears == {2024, 2025}

InitTimestamp ==
    /\ InitTables
    /\ categoryDefault = None
    /\ snLast = [response |-> [kind |-> "none", content |-> <<>>]] @@ Raised
    /\ \E now_year \in NowYears :
         \/ \E parts \in SeqsUpTo({Num(1), Month(1), Word}, MaxTokens) :
                fnLast = TsPending(parts, now_year)
         \/ \E d \in TsDays, mo \in TsMonths :
                fnLast = TsPending(<<Num(d), mo>>, now_year)
         \/ \E d \in TsDays, mo \in TsMonths, y \in TsYears, c \in TsClocks,
               tail \in SeqsUpTo({Word}, 1) :
                fnLast = TsPending(<<Word, Num(d), mo, y, Word, c>> \o tail, now_year)
         \/ \E d \in TsDays, mo \in TsMonths, c \in TsClocks,
               tail \in SeqsUpTo({Word}, 1) :
                fnLast = TsPending(<<Word, Num(d), mo, Word, c>> \o tail, now_year)

NextTimestamp == ParseThaiTimestamp /\ OnlyHelper

SpecTimestamp == InitTimestamp /\ [][NextTimestamp]_vars

\* C13: _parse_thai_timestamp gives a timestamp for every text and never
\* raises: "DD <month>" is that day and month of the current year at 00:00,
\* the full shape with a year and a clock is that instant, and a text that
\* does not parse (a two-token text whose second token is no month name
\* among them) is 1970-01-01 00:00.
C13_AlwaysATimestamp ==
    (fnLast.fn = "_parse_thai_timestamp" /\ fnLast.outcome # "pending")
    => LET parts == fnLast.parts
       IN  /\ fnLast.outcome = "returned"
           /\ (/\ Len(parts) = 2
               /\ parts[1].kind = "digits"
               /\ parts[2].kind = "month"
               /\ parts[1].n \in 1..DaysIn(fnLast.now_year, parts[2].n))
              => fnLast.value = datetime(fnLast.now_year, parts[2].n, parts[1].n, 0, 0)
           /\ (/\ Len(parts) = 2
               /\ parts[1].kind = "digits"
               /\ parts[2].kind # "month")
              => fnLast.value = Epoch
           /\ (/\ Len(parts) >= 6
               /\ parts[2].kind = "digits"
               /\ parts[3].kind = "month"
               /\ parts[4].kind = "digits"
               /\ parts[6].kind = "clock"
               /\ ~DatetimeRaises(parts[4].n, parts[3].n, parts[2].n,
                                  parts[6].n, parts[6].m))
              => fnLast.value = datetime(parts[4].n, parts[3].n, parts[2].n,
                                         parts[6].n, parts[6].m)


----------------------------------------------------------------------------
(* views.py: clean_number                                                   *)
(*                                                                          *)
(* A str is a sequence of characters; " videos", " views" and               *)
(* " subscribers" each stand as one element for the run of characters       *)
(* replace() removes.                                                       *)

DigitChars == <<"0", "1", "2", "3", "4", "5", "6", "7", "8", "9">>

IsDigit(c) == \E k \in DOMAIN DigitChars : DigitChars[k] = c

DigitValue(c) == (CHOOSE k \in DOMAIN DigitChars : DigitChars[k] = c) - 1

AllDigits(s) == \A i \in DOMAIN s : IsDigit(s[i])

\* The number a run of decimal digits writes, 0 for the empty run.
RECURSIVE DigitsValue(_)
DigitsValue(s) ==
    IF s = <<>> THEN 0
    ELSE DigitsValue(Slice(s, 1, Len(s) - 1)) * 10 + DigitValue(s[Len(s)])

\* str.replace(c, '') for each c of cs
Remove(s, cs) == SelectSeq(s, LAMBDA c : c \notin cs)

\* A numeral without its sign, and whether the sign is a minus.
Unsigned(t) == IF t # <<>> /\ t[1] \in {"+", "-"} THEN Tail(t) ELSE t

IsNegative(t) == t # <<>> /\ t[1] = "-"

\* int(s) raises ValueError unless s, stripped, is an optional sign and a run
\* of digits.
IntOfStrRaises(s) ==
    LET t == Unsigned(Strip(s))
    IN  t = <<>> \/ ~AllDigits(t)

\* int(s)
IntOfStr(s) ==
    IF IsNegative(Strip(s)) THEN 0 - DigitsValue(Unsigned(Strip(s)))
    ELSE DigitsValue(Unsigned(Strip(s)))

\* float(s) raises ValueError unless s, stripped, is an optional sign and
\* digits with at most one point and at least one digit.
FloatRaises(s) ==
    LET t == Unsigned(Strip(s))
        dot == FirstOf(t, {"."})
        whole == Slice(t, 1, dot - 1)
        frac == Slice(t, dot + 1, Len(t))
    IN  ~(/\ whole \o frac # <<>>
          /\ AllDigits(whole)
          /\ AllDigits(frac))

\* A Python int, held as n * 10^e so that the counts of millions and
\* billions stay within the integers of the checker.
Times10(n, e) == [n |-> n, e |-> IF n = 0 THEN 0 ELSE e]

Whole(n) == Times10(n, 0)

\* int(float(s) * 10^exp): the product truncated toward zero.  (For the
\* short decimals drawn below the binary product truncates to the decimal
\* one.)
Scaled(s, exp) ==
    LET t == Unsigned(Strip(s))
        dot == FirstOf(t, {"."})
        whole == Slice(t, 1, dot - 1)
        frac == Slice(t, dot + 1, Len(t))
        digits == DigitsValue(whole \o frac)
        size == IF Len(frac) <= exp
                THEN Times10(digits, exp - Len(frac))
                ELSE Whole(digits \div (10 ^ (Len(frac) - exp)))
    IN  IF IsNegative(Strip(s)) THEN Times10(0 - size.n, size.e) ELSE size

CnStr(text) == [type |-> "str", text |-> text, n |-> 0]
CnNumber(n) == [type |-> "int", text |-> <<>>, n |-> n]
CnOther == [type |-> "other", text |-> <<>>, n |-> 0]

CnReturned(n) == [outcome |-> "returned", result |-> n]
CnRaised == [outcome |-> "raised", result |-> Whole(0)]

Suffixes == {" videos", " views", " subscribers"}

\* Line 350: the text the branches below look at.
Cleaned(text) == Strip(Remove(Lower(text), {","} \cup Suffixes))

\* One of the three multiplier branches, for the multiplier 10^exp: float()
\* stands outside the try.
Multiplied(value, letter, exp) ==
    IF FloatRaises(Remove(value, {letter}))
    THEN CnRaised
    ELSE CnReturned(Scaled(Remove(value, {letter}), exp))

clean_number(value) ==
    IF value.type = "str"
    THEN LET v == Cleaned(value.text)
         IN  IF Contains(v, <<"k">>) THEN Multiplied(v, "k", 3)
             ELSE IF Contains(v, <<"m">>) THEN Multiplied(v, "m", 6)
             ELSE IF Contains(v, <<"b">>) THEN Multiplied(v, "b", 9)
             ELSE IF IntOfStrRaises(v) THEN CnReturned(Whole(0))
             ELSE CnReturned(Whole(IntOfStr(v)))
    ELSE IF value.type = "int" THEN CnReturned(Whole(value.n))
    ELSE CnReturned(Whole(0))

CnPending(value) ==
    [fn |-> "clean_number", value |-> value, outcome |-> "pending", result |-> Whole(0)]

CleanNumber ==
    /\ fnLast.fn = "clean_number"
    /\ fnLast.outcome = "pending"
    /\ fnLast' = clean_number(fnLast.value) @@ fnLast

(* clean_number on its own *)

MaxChars == 4

CnChars == {"1", "5", ".", ",", "k", "M", "b", "u", " ", " views"}

InitCleanNumber ==
    /\ InitTables
    /\ categoryDefault = None
    /\ snLast = [response |-> [kind |-> "none", content |-> <<>>]] @@ Raised
    /\ \/ \E text \in SeqsUpTo(CnChars, MaxChars) : fnLast = CnPending(CnStr(text))
       \/ \E n \in 0..MaxChars : fnLast = CnPending(CnNumber(n))
       \/ fnLast = CnPending(CnOther)

NextCleanNumber == CleanNumber /\ OnlyHelper

SpecCleanNumber == InitCleanNumber /\ [][NextCleanNumber]_vars

\* C14: clean_number gives an integer for every string and never raises: a
\* string that is (after lower-casing and the removal of separators and
\* suffixes) a number followed by k, m or b gives the number times 10^3,
\* 10^6 or 10^9, a run of digits gives itself, and a string holding a
\* character that is neither of these (as "unknown" does) gives 0.
C14_AlwaysAnInteger ==
    (/\ fnLast.fn = "clean_number"
     /\ fnLast.outcome # "pending"
     /\ fnLast.value.type = "str")
    => LET v == Cleaned(fnLast.value.text)
           body == Slice(v, 1, Len(v) - 1)
           exp == [c \in {"k", "m", "b"} |-> IF c = "k" THEN 3 ELSE IF c = "m" THEN 6 ELSE 9]
       IN  /\ fnLast.outcome = "returned"
           /\ (v # <<>> /\ AllDigits(v)) => fnLast.result = Whole(DigitsValue(v))
           /\ (/\ v # <<>>
               /\ v[Len(v)] \in {"k", "m", "b"}
               /\ ~FloatRaises(body))
              => fnLast.result = Scaled(body, exp[v[Len(v)]])
           /\ Contains(v, <<"u">>) => fnLast.result = Whole(0)


----------------------------------------------------------------------------
(* fb_reel.py: FBReelScraper._parse_thai_number                             *)
(*                                                                          *)
(* The four Thai unit words each stand as one element of the text.          *)

PHAN == "<phan>"
MUEN == "<muen>"
SAEN == "<saen>"
LAN == "<lan>"

\* units, in the order the dict is iterated
\* (exp: the multiplier is 10^exp)
units == <<[unit |-> PHAN, exp |-> 3], [unit |-> MUEN, exp |-> 4],
           [unit |-> SAEN, exp |-> 5], [unit |-> LAN, exp |-> 6]>>

\* t.endswith(unit)
endswith(t, unit) == t # <<>> /\ t[Len(t)] = unit

\* The first unit of the dict the text ends with, 0 when it ends with none.
FirstUnit(t) ==
    IF \E k \in DOMAIN units : endswith(t, units[k].unit)
    THEN CHOOSE k \in DOMAIN units :
             /\ endswith(t, units[k].unit)
             /\ \A j \in 1..(k - 1) : ~endswith(t, units[j].unit)
    ELSE 0

\* re.sub(r'[^\d]', '', t)
OnlyDigits(t) == SelectSeq(t, IsDigit)

\* A prefix float() rejects counts as 1.0.
PrefixValue(num_str, exp) ==
    IF FloatRaises(num_str) THEN Times10(1, exp) ELSE Scaled(num_str, exp)

_parse_thai_number(text) ==
    LET t == Strip(text)
        k == FirstUnit(t)
    IN  IF k # 0
        THEN PrefixValue(Strip(Slice(t, 1, Len(t) - 1)), units[k].exp)
        ELSE IF OnlyDigits(t) # <<>> THEN Whole(DigitsValue(OnlyDigits(t))) ELSE Whole(0)

TnPending(text) ==
    [fn |-> "_parse_thai_number", text |-> text, outcome |-> "pending",
     result |-> Whole(0)]

ParseThaiNumber ==
    /\ fnLast.fn = "_parse_thai_number"
    /\ fnLast.outcome = "pending"
    /\ fnLast' = [outcome |-> "returned",
                  result |-> _parse_thai_number(fnLast.text)] @@ fnLast

(* The count parser on its own *)

TnChars == {"4", "5", ".", "-", " ", "x", PHAN, MUEN, SAEN, LAN}

InitThaiNumber ==
    /\ InitTables
    /\ categoryDefault = None
    /\ snLast = [response |-> [kind |-> "none", content |-> <<>>]] @@ Raised
    /\ \E text \in SeqsUpTo(TnChars, MaxChars) : fnLast = TnPending(text)

NextThaiNumber == ParseThaiNumber /\ OnlyHelper

SpecThaiNumber == InitThaiNumber /\ [][NextThaiNumber]_vars

\* C15: _parse_thai_number gives, for a label that ends in a unit word and
\* whose prefix is a number, the prefix times the unit truncated to an
\* integer; for a label that ends in no unit word the integer its digits
\* write, 0 when it has no digit; and its result is never negative.
C15_UnitsDigitsNeverNegative ==
    (fnLast.fn = "_parse_thai_number" /\ fnLast.outcome # "pending")
    => LET t == Strip(fnLast.text)
           prefix == Strip(Slice(t, 1, Len(t) - 1))
       IN  /\ \A k \in DOMAIN units :
                  (endswith(t, units[k].unit) /\ ~FloatRaises(prefix))
                  => fnLast.result = Scaled(prefix, units[k].exp)
           /\ (FirstUnit(t) = 0 /\ OnlyDigits(t) # <<>>)
              => fnLast.result = Whole(DigitsValue(OnlyDigits(t)))
           /\ (FirstUnit(t) = 0 /\ OnlyDigits(t) = <<>>) => fnLast.result = Whole(0)
           /\ fnLast.result.n >= 0


----------------------------------------------------------------------------
(* views.py: normalize_url applied to a URL, to a second URL of the same    *)
(* scheme, host and path, and to its own result                             *)

NuPending(url, other) ==
    [fn |-> "normalize_url", url |-> url, other |-> other, outcome |-> "pending",
     result |-> <<>>, other_result |-> <<>>, again |-> <<>>]

NormalizeUrl ==
    /\ fnLast.fn = "normalize_url"
    /\ fnLast.outcome = "pending"
    /\ fnLast' = [fnLast EXCEPT !.outcome = "once",
                                !.result = normalize_url(fnLast.url),
                                !.other_result = normalize_url(fnLast.other)]

NormalizeUrlAgain ==
    /\ fnLast.fn = "normalize_url"
    /\ fnLast.outcome = "once"
    /\ fnLast' = [fnLast EXCEPT !.outcome = "twice",
                                !.again = normalize_url(fnLast.result)]

MaxPath == 3

\* What may follow scheme, host and path: trailing slashes, a query, a
\* fragment.
NuSlashes == {<<>>, <<"/">>, <<"/", "/">>}
NuQueries == {<<>>, <<"?">>, <<"?", "q">>, <<"?", "/">>, <<"?", "q", "?">>}
NuFragments == {<<>>, <<"#">>, <<"#", "f">>, <<"#", "?", "/">>}

InitNormalize ==
    /\ InitTables
    /\ categoryDefault = None
    /\ snLast = [response |-> [kind |-> "none", content |-> <<>>]] @@ Raised
    /\ \E path \in {p \in SeqsUpTo({"/", "p"}, MaxPath) : p = <<>> \/ p[1] = "/"} :
       \E s1 \in NuSlashes, q1 \in NuQueries, f1 \in NuFragments :
       \E s2 \in NuSlashes, q2 \in NuQueries, f2 \in NuFragments :
          fnLast = NuPending(<<Origin>> \o path \o s1 \o q1 \o f1,
                             <<Origin>> \o path \o s2 \o q2 \o f2)

NextNormalize ==
    \/ NormalizeUrl /\ OnlyHelper
    \/ NormalizeUrlAgain /\ OnlyHelper

SpecNormalize == InitNormalize /\ [][NextNormalize]_vars

----------------------------------------------------------------------------
(* views.py: extract_post_id                                                *)
(*                                                                          *)
(* The literal text of each pattern stands as one element of the URL.       *)

Digits == {"0", "1", "2", "3", "4", "5", "6", "7", "8", "9"}
Alnum == Digits \cup {UpperLetters[k] : k \in DOMAIN UpperLetters}
                \cup {LowerLetters[k] : k \in DOMAIN LowerLetters}

\* patterns, in list order: the literal text and the class of the group.
patterns ==
    <<[literal |-> "permalink/",  class |-> Digits],
      [literal |-> "posts/",      class |-> Alnum],
      [literal |-> "story_fbid=", class |-> Digits],
      [literal |-> "/videos/",    class |-> Digits],
      [literal |-> "fbid=",       class |-> Digits],
      [literal |-> "comment_id=", class |-> Digits]>>

\* The literal occurs at element e: "fbid=" is also the tail of
\* "story_fbid=".
Occurs(literal, e) == e = literal \/ (literal = "fbid=" /\ e = "story_fbid=")

\* The pattern matches at position i: its literal, then at least one
\* character of the class.
MatchAt(url, i, p) ==
    /\ i + 1 <= Len(url)
    /\ Occurs(p.literal, url[i])
    /\ url[i + 1] \in p.class

\* re.search(pattern, url): the leftmost position of a match, 0 for None.
search(p, url) ==
    IF \E i \in DOMAIN url : MatchAt(url, i, p)
    THEN CHOOSE i \in DOMAIN url :
             MatchAt(url, i, p) /\ \A j \in 1..(i - 1) : ~MatchAt(url, j, p)
    ELSE 0

\* match.group(1): the longest run of the class after the literal.
group1(url, i, p) ==
    LET last == CHOOSE e \in (i + 1)..Len(url) :
                    /\ \A j \in (i + 1)..e : url[j] \in p.class
                    /\ e = Len(url) \/ url[e + 1] \notin p.class
    IN  Slice(url, i + 1, last)

PostId(text) == [none |-> FALSE, text |-> text]
NoPostId == [none |-> TRUE, text |-> <<>>]

\* A reading that returns the group of the match that starts leftmost in the
\* URL, whichever pattern gave it.
extract_post_id_leftmost(url) ==
    IF \E k \in DOMAIN patterns : search(patterns[k], url) # 0
    THEN LET k == CHOOSE a \in DOMAIN patterns :
                      /\ search(patterns[a], url) # 0
                      /\ \A b \in DOMAIN patterns :
                             search(patterns[b], url) # 0
                             => \/ search(patterns[a], url) < search(patterns[b], url)
                                \/ (search(patterns[a], url) = search(patterns[b], url)
                                    /\ a <= b)
         IN  PostId(group1(url, search(patterns[k], url), patterns[k]))
    ELSE NoPostId

extract_post_id(url) ==
    IF \E k \in DOMAIN patterns : search(patterns[k], url) # 0
    THEN LET k == CHOOSE a \in DOMAIN patterns :
                      /\ search(patterns[a], url) # 0
                      /\ \A b \in 1..(a - 1) : search(patterns[b], url) = 0
         IN  PostId(group1(url, search(patterns[k], url), patterns[k]))
    ELSE NoPostId

EpPending(url) ==
    [fn |-> "extract_post_id", url |-> url, outcome |-> "pending", result |-> NoPostId]

ExtractPostId ==
    /\ fnLast.fn = "extract_post_id"
    /\ fnLast.outcome = "pending"
    /\ fnLast' = [fnLast EXCEPT !.outcome = "returned",
                                !.result = extract_post_id(fnLast.url)]

(* extract_post_id on its own *)

EpChars == {"permalink/", "posts/", "story_fbid=", "/videos/", "fbid=", "comment_id=",
            "1", "a", "&"}

InitExtract ==
    /\ InitTables
    /\ categoryDefault = None
    /\ snLast = [response |-> [kind |-> "none", content |-> <<>>]] @@ Raised
    /\ \E rest \in SeqsUpTo(EpChars, MaxChars) :
           fnLast = EpPending(<<Origin, "/">> \o rest)

NextExtract == ExtractPostId /\ OnlyHelper

SpecExtract == InitExtract /\ [][NextExtract]_vars

\* C17: extract_post_id returns the group of the first pattern, in the order
\* permalink/, posts/, story_fbid=, /videos/, fbid=, comment_id=, that
\* matches anywhere in the URL, even when a later pattern matches further to
\* the left; a URL no pattern matches gives no identifier.
C17_EarliestPatternWins ==
    (fnLast.fn = "extract_post_id" /\ fnLast.outcome = "returned")
    => LET url == fnLast.url
           matches(k) == \E i \in DOMAIN url : MatchAt(url, i, patterns[k])
       IN  /\ \A k \in DOMAIN patterns :
                  (matches(k) /\ \A j \in 1..(k - 1) : ~matches(j))
                  => /\ ~fnLast.result.none
                     /\ \E i \in DOMAIN url :
                            /\ MatchAt(url, i, patterns[k])
                            /\ fnLast.result.text = group1(url, i, patterns[k])
           /\ (\A k \in DOMAIN patterns : ~matches(k)) => fnLast.result = NoPostId

C17_Witness ==
    /\ fnLast.fn = "extract_post_id"
    /\ fnLast.outcome = "returned"
    /\ fnLast.url = <<Origin, "/", "fbid=", "1", "posts/", "a">>
    /\ fnLast.result = PostId(<<"a">>)


----------------------------------------------------------------------------
(* group_detail over a Post table add_page has filled                       *)

MaxPosts == 2

\* Rows of the Post table as add_page's update_or_create writes them from
\* the scraped items (views.py lines 429-443).
EngagementRows ==
    {[post_id |-> "p", page |-> 1, post_type |-> "post",
      post_timestamp_dt |-> dt, reactions |-> r, comment_count |-> c, share_count |-> s] :
        dt \in {None, "dt"},
        r \in {NotADict, Dict(<<40, 10>>), Dict(<<1200>>)},
        c \in {NullCount, Count(5)},
        s \in {NullCount, Count(5)}}

\* The same rows under the post_ids p1, p2, ... of their positions.
Numbered(rows) ==
    [k \in DOMAIN rows |->
        [rows[k] EXCEPT !.post_id = IF k = 1 THEN "p1" ELSE IF k = 2 THEN "p2" ELSE "p3"]]

InitEngagement ==
    /\ reel = NoScraper
    /\ groups = {1}
    /\ pages = <<[group |-> 1, platform |-> "facebook"]>>
    /\ \E rows \in SeqsUpTo(EngagementRows, MaxPosts) : posts = Numbered(rows)
    /\ pgLast = Response("none", 0, "none") @@ NoRun
    /\ dashboards = <<>>
    /\ comments = <<>>
    /\ categoryDefault = None
    /\ cmLast = CmResponse(CmReq("none", <<>>, NoKey), 0, "none")
    /\ snLast = [response |-> [kind |-> "none", content |-> <<>>]] @@ Raised
    /\ fnLast = NoCall

NextEngagement ==
    \/ group_detail(1) /\ OnlyPages
    \/ group_detail(2) /\ OnlyPages

SpecEngagement == InitEngagement /\ [][NextEngagement]_vars

\* C18: every post group_detail lists carries as total engagement the sum of
\* its reaction counts, its comment count and its share count, an absent one
\* counting 0, and as engagement rate that total over 100 rounded to one
\* decimal and capped at 10.0 (rates are held in tenths); the rate lies
\* between 0 and 10.0.
C18_EngagementRate ==
    (pgLast.op = "group_detail" /\ pgLast.status = 200)
    => \A k \in DOMAIN pgLast.top10 :
           LET listed == pgLast.top10[k]
               post == posts[listed.row]
               total == (IF post.reactions.dict THEN SumValues(post.reactions.values) ELSE 0)
                        + (IF post.comment_count = <<>> THEN 0 ELSE post.comment_count[1])
                        + (IF post.share_count = <<>> THEN 0 ELSE post.share_count[1])
           IN  /\ listed.total_engagement = total
               /\ \E rounded \in (total \div 10)..(total \div 10 + 1) :
                      /\ 10 * rounded - total \in (0 - 5)..5
                      /\ listed.engagement_rate = IF rounded < 100 THEN rounded ELSE 100
               /\ listed.engagement_rate \in 0..100

\* A listing with a capped post first and a post without reactions second.
C18_Witness ==
    /\ pgLast.op = "group_detail"
    /\ pgLast.status = 200
    /\ Len(pgLast.top10) = 2
    /\ pgLast.top10[1].total_engagement = 1210
    /\ pgLast.top10[1].engagement_rate = 100
    /\ ~posts[pgLast.top10[2].row].reactions.dict
    /\ pgLast.top10[2].total_engagement = 10
    /\ pgLast.top10[2].engagement_rate = 1


----------------------------------------------------------------------------
(* Claims about what the comment-dashboard handlers persist and answer      *)

\* C19: after any sequence of add_comment_url and add_activity_dashboard
\* requests every FBCommentDashboard row has dashboard_type "seeding" or
\* "activity", whatever dashboard_type the requests carried.
C19_TypeIsSeedingOrActivity ==
    \A i \in DOMAIN dashboards :
        dashboards[i].dashboard_type \in {"seeding", "activity"}

\* C20: add_comment_url answers a request without a URL, or with one that is
\* not well-formed, with 400 and plain text, and then creates no dashboard,
\* creates no comment and calls no scraper.
C20_BadUrlIs400 ==
    (/\ cmLast.op = "add_comment_url"
     /\ cmLast.method \in {"GET", "POST"}
     /\ (NoText(cmLast.url) \/ ~URLValidator(cmLast.url)))
    => /\ cmLast.status = 400
       /\ cmLast.view = "plain text"
       /\ Len(dashboards) = cmLast.dashBefore
       /\ Len(comments) = cmLast.comBefore
       /\ cmLast.calls = <<>>


----------------------------------------------------------------------------
(* Claims about pageview (checked under SpecPages)                          *)

\* C21: pageview of a facebook Page renders whatever Posts the page has,
\* Posts without a publish timestamp included: every Post gets a total
\* engagement, so the top-10 and flop-10 rankings are computed.
C21_PageviewRendersAnyPosts ==
    (/\ pgLast.op = "pageview"
     /\ pgLast.id \in DOMAIN pages
     /\ pgLast.platform = "facebook")
    => /\ pgLast.status = 200
       /\ pgLast.view = "pageview.html"


----------------------------------------------------------------------------
(* fb_reel.py: FBReelScraperAsync._process_cookie                           *)

\* cookie.get("sameSite"): None for a cookie without the key or with null,
\* a str, or a value of another type.
SsNone == [type |-> "None", text |-> <<>>]
SsStr(text) == [type |-> "str", text |-> text]
SsNumber == [type |-> "number", text |-> <<>>]

NO_RESTRICTION == <<"n", "o", "_", "r", "e", "s", "t", "r", "i", "c", "t", "i", "o", "n">>
LAX == <<"l", "a", "x">>
STRICT == <<"s", "t", "r", "i", "c", "t">>

\* The body of the loop (lines 55-61): the sameSite the cookie holds after it.
sameSite(s) ==
    IF s.type = "None" \/ (s.type = "str" /\ Lower(s.text) = NO_RESTRICTION)
    THEN SsStr(<<"N", "o", "n", "e">>)
    ELSE IF s.type = "str" /\ Lower(s.text) = LAX
    THEN SsStr(<<"L", "a", "x">>)
    ELSE IF s.type = "str" /\ Lower(s.text) = STRICT
    THEN SsStr(<<"S", "t", "r", "i", "c", "t">>)
    ELSE s

_process_cookie(raw) == [k \in DOMAIN raw |-> sameSite(raw[k])]

PcPending(raw) ==
    [fn |-> "_process_cookie", raw |-> raw, outcome |-> "pending", cookies |-> <<>>]

ProcessCookie ==
    /\ fnLast.fn = "_process_cookie"
    /\ fnLast.outcome = "pending"
    /\ fnLast' = [fnLast EXCEPT !.outcome = "returned",
                                !.cookies = _process_cookie(fnLast.raw)]

(* The cookie file *)

MaxCookies == 2

SameSiteValues ==
    {SsNone, SsNumber, SsStr(<<>>),
     SsStr(LAX), SsStr(<<"L", "a", "x">>), SsStr(<<"L", "A", "X">>),
     SsStr(STRICT), SsStr(<<"S", "t", "r", "i", "c", "t">>),
     SsStr(NO_RESTRICTION), SsStr(<<"N", "o", "n", "e">>), SsStr(<<"n", "o", "n", "e">>),
     SsStr(<<"u", "n", "s", "p", "e", "c", "i", "f", "i", "e", "d">>)}

InitCookie ==
    /\ InitTables
    /\ categoryDefault = None
    /\ snLast = [response |-> [kind |-> "none", content |-> <<>>]] @@ Raised
    /\ \E raw \in SeqsUpTo(SameSiteValues, MaxCookies) : fnLast = PcPending(raw)

NextCookie == ProcessCookie /\ OnlyHelper

SpecCookie == InitCookie /\ [][NextCookie]_vars

\* C22: after _process_cookie every cookie whose sameSite was absent or a
\* string has the sameSite "None", "Lax" or "Strict": lax and strict in any letter case give "Lax" and "Strict", and
\* an absent value or any other string gives "None".
C22_SameSiteCoerced ==
    (fnLast.fn = "_process_cookie" /\ fnLast.outcome = "returned")
    => \A k \in DOMAIN fnLast.raw :
           LET s == fnLast.raw[k]
               after == fnLast.cookies[k]
           IN  /\ s.type \in {"None", "str"}
                  => after \in {SsStr(<<"N", "o", "n", "e">>), SsStr(<<"L", "a", "x">>),
                                SsStr(<<"S", "t", "r", "i", "c", "t">>)}
               /\ (s.type = "str" /\ Lower(s.text) = <<"l", "a", "x">>)
                  => after = SsStr(<<"L", "a", "x">>)
               /\ (s.type = "str" /\ Lower(s.text) = <<"s", "t", "r", "i", "c", "t">>)
                  => after = SsStr(<<"S", "t", "r", "i", "c", "t">>)
               /\ (s.type = "None"
                   \/ (s.type = "str" /\ Lower(s.text) \notin {<<"l", "a", "x">>,
                                                               <<"s", "t", "r", "i", "c", "t">>}))
                  => after = SsStr(<<"N", "o", "n", "e">>)


\* ---------------------------------------------------------------------------
\* FBReelScraperAsync.run (fb_reel.py): one coroutine that opens a browser,
\* confirms the login, opens the page and then, batch after batch, collects
\* reel links (_get_post) and reads each reel in a tab of its own
\* (_get_post_detail, joined by asyncio.gather).  Every await is one step.
\* The reel links of the page are numbered 1..MaxReels in the order the page
\* lists them; reel.shown of them are in the document at the moment.
\* ---------------------------------------------------------------------------
MaxReels == 3
BatchSize == 2

max_empty_fetch_retries == 3
max_empty_batch_retries == 3

Min(a, b) == IF a < b THEN a ELSE b

\* The scraper as __init__ leaves it and as run finds it.
NewRun == [NoScraper EXCEPT !.pc = "launch"]

\* Leaving "async with async_playwright()" without closing the browser.
PlaywrightExitLeavesOpen(r) == r

\* Leaving "async with async_playwright()": Playwright stops its driver, and
\* the driver closes every browser it launched, with their contexts.
PlaywrightExit(r) ==
    [r EXCEPT !.browser = IF @ = "open" THEN "closed" ELSE @,
              !.context = IF @ = "open" THEN "closed" ELSE @]

\* run is left, by a return or by an exception, through the with statement.
Leave(r, how) == [PlaywrightExit(r) EXCEPT !.pc = "done", !.exit = how]

\* window.scrollBy: the page may or may not load one more reel card.
Scrolled(r) ==
    {[r EXCEPT !.shown = n] : n \in {r.shown, Min(r.shown + 1, MaxReels)}}

\* What JS_FETCH_POSTS returns: one entry per anchor of the reels section,
\* every card from the top of the document again, a card with two anchors
\* twice; nothing while the section has not rendered.
Listing(n) == [i \in 1..n |-> i]
JS_FETCH_POSTS(n) == {<<>>, Listing(n), Listing(n) \o Listing(n)}

\* A link counted as new whatever seen_ids holds.
IsNewAlways(url, seen_ids) == TRUE

\* "if url and url not in seen_ids"
IsNew(url, seen_ids) == url \notin seen_ids

\* The for loop of _get_post over the entries, with its break.
RECURSIVE Absorb(_, _, _, _, _)
Absorb(data, i, batch, seen_ids, new_count) ==
    IF i > Len(data)
    THEN [batch |-> batch, seen_ids |-> seen_ids, new_count |-> new_count]
    ELSE IF IsNew(data[i], seen_ids)
         THEN IF Len(batch) + 1 >= BatchSize
              THEN [batch |-> Append(batch, data[i]),
                    seen_ids |-> seen_ids \cup {data[i]},
                    new_count |-> new_count + 1]
              ELSE Absorb(data, i + 1, Append(batch, data[i]),
                          seen_ids \cup {data[i]}, new_count + 1)
         ELSE Absorb(data, i + 1, batch, seen_ids, new_count)

\* A retry test that never gives up.
MayRetryForever(retries, max) == TRUE

\* "empty_batch_retries < max_empty_batch_retries"
MayRetry(retries, max) == retries < max

\* "while len(batch) < max_posts and empty_fetch_retries < max_empty_fetch_retries"
Fetching(r) ==
    /\ Len(r.batch) < BatchSize
    /\ r.empty_fetch_retries < max_empty_fetch_retries

\* The awaits of _get_post_detail, in order.
DetailSteps == <<"new_page", "goto", "evaluate", "wait_for", "content", "counts">>

\* post_url is assigned after postRoot.wait_for.
PostUrlBound(step) == step \in {"content", "counts"}

\* The except clause of _get_post_detail: it prints post_url first, a local
\* that is unbound when the failure came before its assignment, so the
\* handler itself raises; otherwise the tab is closed and None returned.
DetailFailure(step) == IF PostUrlBound(step) THEN "dropped" ELSE "raised"

\* The record _get_post_detail returns.
Detail(url) == [post_url |-> url, post_type |-> "reel"]

Task(url) == [url |-> url, at |-> 1, state |-> "running"]

RECURSIVE Succeeded(_)
Succeeded(tasks) ==
    IF tasks = <<>> THEN <<>>
    ELSE (IF Head(tasks).state = "returned"
          THEN <<Detail(Head(tasks).url)>> ELSE <<>>) \o Succeeded(Tail(tasks))

\* asyncio.gather returns once every task has returned.
JoinEarly(tasks) == TRUE

JoinReady(tasks) ==
    \A i \in DOMAIN tasks : tasks[i].state \in {"returned", "dropped"}

\* FBReelScraperAsync(...).start()
StartRun ==
    /\ reel = NoScraper
    /\ reel' = NewRun

\* run, lines 396-404: launch, new_context, _process_cookie, add_cookies.
Launch ==
    /\ reel.pc = "launch"
    /\ \E outcome \in {"ok", "launch raised", "new_context raised",
                       "add_cookies raised"} :
         reel' = CASE outcome = "ok" ->
                        [reel EXCEPT !.pc = "login", !.browser = "open",
                                     !.context = "open"]
                   [] outcome = "launch raised" -> Leave(reel, "raised")
                   [] outcome = "new_context raised" ->
                        Leave([reel EXCEPT !.browser = "open"], "raised")
                   [] OTHER ->
                        Leave([reel EXCEPT !.browser = "open",
                                           !.context = "open"], "raised")

\* run, lines 409-415: new_page, goto, _confirm_login.
ConfirmLogin ==
    /\ reel.pc = "login"
    /\ \E outcome \in {"username", "None", "raised"} :
         reel' = CASE outcome = "username" -> [reel EXCEPT !.pc = "open"]
                   [] outcome = "None" -> Leave(reel, "login failed")
                   [] OTHER -> Leave(reel, "raised")

\* run, lines 420-447: open the page and its reels tab, then the locals.
OpenPage ==
    /\ reel.pc = "open"
    /\ \E outcome \in {"ok", "failed"}, n \in 0..1 :
         reel' = IF outcome = "ok"
                 THEN [reel EXCEPT !.pc = "wait", !.shown = n]
                 ELSE Leave(reel, "open failed")

\* run, line 451, and _get_post, lines 136-145.
BeginBatch ==
    /\ reel.pc = "wait"
    /\ \E outcome \in {"ok", "raised"} :
         reel' = IF outcome = "ok"
                 THEN [reel EXCEPT !.pc = "fetch", !.batch = <<>>,
                                   !.empty_fetch_retries = 0]
                 ELSE Leave(reel, "raised")

\* _get_post, lines 148-188: one turn of the while loop.
Evaluate ==
    /\ reel.pc = "fetch"
    /\ Fetching(reel)
    /\ \E data \in JS_FETCH_POSTS(reel.shown), raised \in BOOLEAN :
         LET a == Absorb(data, 1, reel.batch, reel.seen_ids, 0)
             counted == [reel EXCEPT !.empty_fetch_retries = @ + 1]
             taken == [reel EXCEPT !.batch = a.batch,
                                   !.seen_ids = a.seen_ids,
                                   !.empty_fetch_retries = 0,
                                   !.collected =
                                       @ \o SubSeq(a.batch, Len(reel.batch) + 1,
                                                   Len(a.batch))]
         IN  IF raised THEN reel' = Leave(reel, "raised")
             ELSE IF data = <<>> \/ a.new_count = 0
                  THEN reel' \in Scrolled(counted)
                  ELSE IF Len(a.batch) >= BatchSize
                       THEN reel' = taken
                       ELSE reel' \in Scrolled(taken)

\* _get_post, line 191, and run, lines 457-477.
ReturnBatch ==
    /\ reel.pc = "fetch"
    /\ ~Fetching(reel)
    /\ LET r == reel
       IN  IF r.batch = <<>>
           THEN IF MayRetry(r.empty_batch_retries, max_empty_batch_retries)
                THEN reel' \in Scrolled([r EXCEPT !.empty_batch_retries = @ + 1,
                                                  !.pc = "wait"])
                ELSE reel' = [r EXCEPT !.pc = "cleanup"]
           ELSE reel' = [r EXCEPT !.empty_batch_retries = 0,
                                  !.pc = "details",
                                  !.before = r.all_results,
                                  !.tasks = [i \in DOMAIN r.batch |->
                                                 Task(r.batch[i])]]

\* _get_post_detail: the next await of one of the batch's tasks.
DetailStep ==
    /\ reel.pc # "done"
    /\ \E i \in DOMAIN reel.tasks, ok \in BOOLEAN :
         /\ reel.tasks[i].state = "running"
         /\ LET t == reel.tasks[i]
                step == DetailSteps[t.at]
            IN  reel' = [reel EXCEPT !.tasks[i] =
                            IF ~ok THEN [t EXCEPT !.state = DetailFailure(step)]
                            ELSE IF t.at = Len(DetailSteps)
                                 THEN [t EXCEPT !.state = "returned"]
                                 ELSE [t EXCEPT !.at = @ + 1]]

\* run, line 478: gather hands the first exception of a task to run.
GatherRaises ==
    /\ reel.pc = "details"
    /\ \E i \in DOMAIN reel.tasks : reel.tasks[i].state = "raised"
    /\ reel' = Leave(reel, "raised")

\* run, lines 478-493: gather returns, the records are kept, the page scrolled.
Join ==
    /\ reel.pc = "details"
    /\ JoinReady(reel.tasks)
    /\ reel' \in Scrolled([reel EXCEPT !.all_results = @ \o Succeeded(reel.tasks),
                                       !.batch_index = @ + 1,
                                       !.pc = "wait"])

\* run, lines 495-503.
Cleanup ==
    /\ reel.pc = "cleanup"
    /\ reel' = Leave([reel EXCEPT !.context = "closed", !.browser = "closed"],
                     "completed")

NextReel ==
    \/ StartRun /\ OnlyReel
    \/ Launch /\ OnlyReel
    \/ ConfirmLogin /\ OnlyReel
    \/ OpenPage /\ OnlyReel
    \/ BeginBatch /\ OnlyReel
    \/ Evaluate /\ OnlyReel
    \/ ReturnBatch /\ OnlyReel
    \/ DetailStep /\ OnlyReel
    \/ GatherRaises /\ OnlyReel
    \/ Join /\ OnlyReel
    \/ Cleanup /\ OnlyReel

SpecReel == Init /\ [][NextReel]_vars

\* Every await of the run returns or raises in the end.
SpecReelLive == Init /\ [][NextReel]_vars /\ WF_vars(NextReel)

\* C23: a failure at any step of one reel's detail extraction drops that reel
\* only: its task returns no record and never raises into the run, whose
\* other reels are kept and whose next batch follows.
C23_DetailFailureDropsOneReel ==
    /\ \A i \in DOMAIN reel.tasks : reel.tasks[i].state # "raised"
    /\ (reel.pc = "done" /\ reel.tasks # <<>> /\ reel.exit = "raised")
           => \A i \in DOMAIN reel.tasks : reel.tasks[i].state # "running"


\* C25: the run terminates, and neither the empty-batch counter of run nor the
\* empty-fetch counter of _get_post ever counts more than three attempts.
C25_RunTerminates ==
    /\ [](/\ reel.empty_batch_retries <= max_empty_batch_retries
          /\ reel.empty_fetch_retries <= max_empty_fetch_retries)
    /\ <>(reel.pc = "done")


C25_Witness ==
    /\ reel.pc = "done"
    /\ reel.exit = "completed"
    /\ reel.empty_batch_retries = max_empty_batch_retries
    /\ reel.empty_fetch_retries = max_empty_fetch_retries
    /\ reel.all_results # <<>>


\* C26: across a whole run no reel URL is collected twice, within a batch or
\* across batches; a batch never holds more than batch_size entries; and every
\* URL of a batch is in seen_ids.
C26_NoReelCollectedTwice ==
    /\ \A i, j \in DOMAIN reel.collected :
           reel.collected[i] = reel.collected[j] => i = j
    /\ Len(reel.batch) <= BatchSize
    /\ \A i \in DOMAIN reel.batch : reel.batch[i] \in reel.seen_ids
    /\ \A i \in DOMAIN reel.tasks : reel.tasks[i].url \in reel.seen_ids

\* A second batch was returned after a full first one, from a listing that
\* showed the reels of the first batch again.
C26_Witness ==
    /\ reel.pc = "details"
    /\ reel.batch_index = 2
    /\ Len(reel.collected) = MaxReels
    /\ reel.batch # <<>>
    /\ reel.seen_ids = 1..MaxReels


\* C27: link collection for the next batch never starts while a detail task
\* of the batch before it is still running; until the join the result list
\* is as it was when the tasks were created, and after the join it has grown
\* by exactly the records of the tasks that succeeded, in batch order.
C27_BatchesJoinBeforeNextCollection ==
    /\ (reel.pc \in {"wait", "fetch", "cleanup"}) =>
           /\ \A i \in DOMAIN reel.tasks : reel.tasks[i].state # "running"
           /\ reel.all_results = reel.before \o Succeeded(reel.tasks)
    /\ reel.pc = "details" => reel.all_results = reel.before

\* The first batch of two reels was joined: the first reel was dropped, the
\* second one kept, and the run waits to collect the second batch.
C27_Witness ==
    /\ reel.pc = "wait"
    /\ reel.batch_index = 2
    /\ Len(reel.tasks) >= 2
    /\ reel.tasks[1].state = "dropped"
    /\ reel.tasks[2].state = "returned"
    /\ reel.all_results = <<Detail(reel.tasks[2].url)>>


\* C28: an add_activity_dashboard request that ran its pipeline awaited the
\* activity comment scraper (fb_comment), then the like scraper, then the
\* share scraper, and then wrote at most one Comment per scraped comment, each
\* with an author and with the literals liked/not_liked and shared/not_shared.
C28_PipelineOrder ==
    (cmLast.op = "add_activity_dashboard" /\ cmLast.status = 302)
    => /\ cmLast.calls = ActivityScrapers
       /\ Len(comments) - cmLast.comBefore <= cmLast.scraped
       /\ \A c \in (cmLast.comBefore + 1)..Len(comments) :
              /\ ~Falsy(comments[c].author)
              /\ comments[c].dashboard = Len(dashboards)
              /\ comments[c].like_status \in {"liked", "not_liked"}
              /\ comments[c].share_status \in {"shared", "not_shared"}


\* C29: every comment comment_dashboard_view loads and aggregates belongs to
\* the dashboard the view resolved, also when two dashboards were created for
\* the same post URL.
C29_LoadedCommentsBelongToDashboard ==
    (/\ cmLast.op = "comment_dashboard_view"
     /\ cmLast.status = 200
     /\ cmLast.dashboard \in DOMAIN dashboards)
    => \A c \in cmLast.loaded : comments[c].dashboard = cmLast.dashboard

\* C30: when a comment, like or share scraper raises, the add_comment_url or
\* add_activity_dashboard request leaves behind no CommentDashboard and no
\* Comment it created.
C30_ScraperFailureLeavesNothing ==
    (/\ cmLast.op \in {"add_comment_url", "add_activity_dashboard"}
     /\ cmLast.status = 500
     /\ cmLast.calls # <<>>)
    => /\ Len(dashboards) = cmLast.dashBefore
       /\ Len(comments) = cmLast.comBefore

====
